---- MODULE Spec2Model ----
(***************************************************************************)
(* A model of the kaisei quiz renderer (src/unnamed/part_000, lines 1-859, *)
(* the latest revision of the client; src/client.ts is an earlier one).    *)
(*                                                                         *)
(* Text is a sequence of characters.  A character is a one-letter string:  *)
(*   "K"  an ideographic character (kanji)                                 *)
(*   "h", "g", "v"  hiragana;  "H" is the katakana of "h"                  *)
(*   "/"  the key-path separator, "_" and "," the joiners, " " whitespace  *)
(* The literals "model", "meaning", "reading", "particle", "conjugated"    *)
(* and "quiz" are written as one token each: none of them holds a          *)
(* separator, so splitting and prefix tests treat them as the code does.   *)
(*                                                                         *)
(* Time: a timestamp counts half-hours, so that the default halflife of    *)
(* 0.5 hours is the integer 1 and elapsed time is an integer.              *)
(***************************************************************************)
EXTENDS Integers, Sequences, FiniteSets, TLC

VARIABLES
  loaded,     \* setup() has run
  facts,      \* PageState.facts: key -> keyed fact
  memories,   \* PageState.memories: sequence of <<key, doc>>, in insertion order
  db,         \* the PouchDB documents under model/: key -> document
  quizDocs,   \* the PouchDB documents under quiz/: event key -> document
  changesQ,   \* change notifications not yet delivered to setup's listener
  initPos,    \* setup's init(): index of the next key to db.get
  initMem,    \* setup's init(): the snapshot gathered so far
  quiz,       \* Quiz's useReducer state
  reviews,    \* the click handlers of FactQuiz that are running reviewSentence
  nLearn,     \* learnUnlearn calls so far
  clock,      \* Date.now()
  component,  \* a component rendered into the page, observed on its own
  arg,        \* input of a pure function applied on its own
  ret         \* its result

sysvars == <<loaded, facts, memories, db, quizDocs, changesQ, initPos, initMem,
             quiz, reviews, nLearn, clock, component>>
vars == <<loaded, facts, memories, db, quizDocs, changesQ, initPos, initMem,
          quiz, reviews, nLearn, clock, component, arg, ret,
                 component>>

-----------------------------------------------------------------------------
\* Bounds of the model.
MaxClock == 1
MaxLearn == 1
MaxReviews == 2
\* the latest time, in half-hours, of a memory handed to the scheduler alone
MaxElapsed == 2
\* the reviews started in the system whose store operations may fail
MaxFailReviews == 1
\* the longest sequence of notifications folded into a page store alone
MaxNotes == 3
\* the facts, or the memory entries, of one dispatched action or of a page state
MaxDispatched == 2
\* clicks on the learn / unlearn buttons of one component
MaxClicks == 2
\* runs of a component's init() in flight at once
MaxInits == 2

-----------------------------------------------------------------------------
\* Text helpers.

Whitespace == {" "}

RECURSIVE Concat(_)
Concat(ss) == IF ss = <<>> THEN <<>> ELSE Head(ss) \o Concat(Tail(ss))

RECURSIVE JoinWith(_, _)
JoinWith(ss, sep) ==
  IF ss = <<>> THEN <<>>
  ELSE IF Len(ss) = 1 THEN ss[1]
  ELSE ss[1] \o <<sep>> \o JoinWith(Tail(ss), sep)

RECURSIVE TrimLeft(_)
TrimLeft(s) == IF s # <<>> /\ Head(s) \in Whitespace THEN TrimLeft(Tail(s)) ELSE s

RECURSIVE TrimRight(_)
TrimRight(s) ==
  IF s # <<>> /\ s[Len(s)] \in Whitespace THEN TrimRight(SubSeq(s, 1, Len(s) - 1)) ELSE s

Trim(s) == TrimRight(TrimLeft(s))

\* s.replace(/\s/g, '')
RemoveWhitespace(s) == SelectSeq(s, LAMBDA c : c \notin Whitespace)

Includes(s, c) == \E i \in 1..Len(s) : s[i] = c

\* s.split('/'): the segments between separators
RECURSIVE SplitFrom(_, _, _)
SplitFrom(s, i, cur) ==
  IF i > Len(s) THEN <<cur>>
  ELSE IF s[i] = "/" THEN <<cur>> \o SplitFrom(s, i + 1, <<>>)
  ELSE SplitFrom(s, i + 1, Append(cur, s[i]))

Split(s) == SplitFrom(s, 1, <<>>)

\* curtiz-utils
hasKanji(s) == Includes(s, "K")

kata2hiraChar(c) == IF c = "H" THEN "h" ELSE c

kata2hira(s) == [i \in 1..Len(s) |-> kata2hiraChar(s[i])]

\* Furigana = string | Ruby: a string is [str |-> text], a Ruby [ruby |-> text, rt |-> text]
IsString(o) == "str" \in DOMAIN o

furiganaToRuby(v) ==
  Trim(Concat([i \in 1..Len(v) |-> IF IsString(v[i]) THEN v[i].str ELSE v[i].ruby]))

furiganaToRt(v) ==
  Trim(Concat([i \in 1..Len(v) |-> IF IsString(v[i]) THEN v[i].str ELSE v[i].rt]))

furiganaToHiragana(v) == kata2hira(furiganaToRt(v))

-----------------------------------------------------------------------------
\* Facts and their keys.

ModelKey(text, rest) == <<"model", "/">> \o text \o <<"/">> \o rest

\* subfactKeys with the particle's key made of left and cloze only
subfactKeysNoRight(text, o) ==
  IF o.factType = "conjugated"
    THEN << ModelKey(text, <<"conjugated", "/">> \o furiganaToRuby(o.expected)) >>
  ELSE IF o.factType = "particle"
    THEN << ModelKey(text, <<"particle", "/">> \o JoinWith(<<o.left, o.cloze>>, "_")) >>
  ELSE LET k == JoinWith(o.kanjiKana, ",")
       IN  IF hasKanji(k)
             THEN << ModelKey(k, <<"meaning">>), ModelKey(k, <<"reading">>) >>
             ELSE << ModelKey(k, <<"meaning">>) >>

\* the keys of a subfact in src/client.ts: a vocab gets none
subfactKeysClient(text, o) ==
  IF o.factType = "conjugated"
    THEN << ModelKey(text, <<"conjugated", "/">> \o furiganaToRuby(o.expected)) >>
  ELSE IF o.factType = "particle"
    THEN << ModelKey(text, <<"particle", "/">> \o JoinWith(<<o.left, o.cloze, o.right>>, "_")) >>
  ELSE <<>>

subfactKeys(text, o) ==
  IF o.factType = "conjugated"
    THEN << ModelKey(text, <<"conjugated", "/">> \o furiganaToRuby(o.expected)) >>
  ELSE IF o.factType = "particle"
    THEN << ModelKey(text, <<"particle", "/">> \o JoinWith(<<o.left, o.cloze, o.right>>, "_")) >>
  ELSE LET k == JoinWith(o.kanjiKana, ",")
       IN  IF hasKanji(k)
             THEN << ModelKey(k, <<"meaning">>), ModelKey(k, <<"reading">>) >>
             ELSE << ModelKey(k, <<"meaning">>) >>

Throws == [threw |-> TRUE]

\* addKeys giving every sentence a reading key
addKeysAlwaysReading(sentence) ==
  LET text == furiganaToRuby(sentence.furigana)
      keys == << ModelKey(text, <<"meaning">>), ModelKey(text, <<"reading">>) >>
      orig == sentence.subfacts
      subfacts == [i \in 1..Len(orig) |->
                     [f \in DOMAIN orig[i] \cup {"keys"} |->
                        IF f = "keys" THEN subfactKeys(text, orig[i]) ELSE orig[i][f]]]
  IN  IF Includes(text, "/") THEN Throws
      ELSE [factType |-> "sentence", furigana |-> sentence.furigana,
            subfacts |-> subfacts, keys |-> keys]

\* addKeys without the test for the separator
addKeysUnguarded(sentence) ==
  LET text == furiganaToRuby(sentence.furigana)
      keys == IF hasKanji(text)
                THEN << ModelKey(text, <<"meaning">>), ModelKey(text, <<"reading">>) >>
                ELSE << ModelKey(text, <<"meaning">>) >>
      orig == sentence.subfacts
      subfacts == [i \in 1..Len(orig) |->
                     [f \in DOMAIN orig[i] \cup {"keys"} |->
                        IF f = "keys" THEN subfactKeys(text, orig[i]) ELSE orig[i][f]]]
  IN  IF FALSE THEN Throws
      ELSE [factType |-> "sentence", furigana |-> sentence.furigana,
            subfacts |-> subfacts, keys |-> keys]

\* addKeys of src/client.ts (furiganaToString there is furiganaToRuby here)
addKeysClient(sentence) ==
  LET text == furiganaToRuby(sentence.furigana)
      keys == IF hasKanji(text)
                THEN << ModelKey(text, <<"meaning">>), ModelKey(text, <<"reading">>) >>
                ELSE << ModelKey(text, <<"meaning">>) >>
      orig == sentence.subfacts
      subfacts == [i \in 1..Len(orig) |->
                     [f \in DOMAIN orig[i] \cup {"keys"} |->
                        IF f = "keys" THEN subfactKeysClient(text, orig[i]) ELSE orig[i][f]]]
  IN  IF Includes(text, "/") THEN Throws
      ELSE [factType |-> "sentence", furigana |-> sentence.furigana,
            subfacts |-> subfacts, keys |-> keys]

addKeys(sentence) ==
  LET text == furiganaToRuby(sentence.furigana)
      keys == IF hasKanji(text)
                THEN << ModelKey(text, <<"meaning">>), ModelKey(text, <<"reading">>) >>
                ELSE << ModelKey(text, <<"meaning">>) >>
      orig == sentence.subfacts
      subfacts == [i \in 1..Len(orig) |->
                     [f \in DOMAIN orig[i] \cup {"keys"} |->
                        IF f = "keys" THEN subfactKeys(text, orig[i]) ELSE orig[i][f]]]
  IN  IF Includes(text, "/") THEN Throws
      ELSE [factType |-> "sentence", furigana |-> sentence.furigana,
            subfacts |-> subfacts, keys |-> keys]

\* a call of addKeys with the keys written onto the object it was handed
addKeysCallInPlace(sentence) ==
  [result |-> addKeys(sentence),
   sentence |-> IF addKeys(sentence) = Throws THEN sentence ELSE addKeys(sentence)]

\* a call of addKeys: what it returns, and the object it was handed as the call
\* leaves it (the spreads and orig.map build new objects, keys.push fills an
\* array of its own)
addKeysCall(sentence) == [result |-> addKeys(sentence), sentence |-> sentence]

\* The page: one details.quizzable element, a sentence in kana (it has a meaning
\* key only) with a particle and a vocab: three keys, two of them under one root.
PageParticle == [factType |-> "particle", left |-> <<>>, cloze |-> <<"g">>, right |-> <<>>]
PageVocab == [factType |-> "vocab", kanjiKana |-> << <<"v">> >>]
PageSentence ==
  [factType |-> "sentence",
   furigana |-> << [str |-> <<"h">>] >>,
   subfacts |-> << PageParticle, PageVocab >>]

PageFact == addKeys(PageSentence)

\* addFacts carrying the sentence without its subfacts
PageFactsNoSubfacts == <<PageFact>>

\* facts: [fact, ...fact.subfacts]
PageFacts == <<PageFact>> \o PageFact.subfacts

\* allKeys: fact.keys.concat(flatmap(fact.subfacts, o => o.keys))
allKeys == PageFact.keys \o Concat([i \in 1..Len(PageFact.subfacts) |-> PageFact.subfacts[i].keys])

Keys == {allKeys[i] : i \in 1..Len(allKeys)}

-----------------------------------------------------------------------------
\* Documents.  A JavaScript object is a record; an absent field is absent from
\* its domain.  Missing stands for what db.get answers with 404: a document that
\* never existed or whose last revision is a tombstone.

EmptyDoc == [f \in {} |-> TRUE]
Missing == [deleted |-> TRUE]
Undefined == [undefined |-> TRUE]

IsMissing(d) == "deleted" \in DOMAIN d

\* !!o.ebisu
HasEbisu(d) == "ebisu" \in DOMAIN d

\* {...a, ...b}
Spread(a, b) == [f \in DOMAIN a \cup DOMAIN b |-> IF f \in DOMAIN b THEN b[f] ELSE a[f]]

\* date.toISOString() and new Date(s).valueOf()
toISOString(t) == [iso |-> t]
DateValue(s) == s.iso

\* (now - lastSeen) / 3600e3, counted in half-hours
elapsedHours(now, lastSeen) == now - DateValue(lastSeen)

-----------------------------------------------------------------------------
\* ebisu-js (an external library), by what its three calls are used for.  An
\* Ebisu model is <<alpha, beta, t>>.  A number is a fraction [num, den];
\* Infinity is 1/0 and NaN is 0/0, so that x < Infinity holds for every finite
\* x and no comparison with NaN holds, as in JavaScript.

halflife == 1
ab == 3

defaultModel(t, a) == <<a, a, t>>

Infinity == [num |-> 1, den |-> 0]
NaN == [num |-> 0, den |-> 0]
LessThan(x, y) == x.num * y.den < y.num * x.den

\* the recall after `elapsed`: 1 at once, 1/2 after a halflife when alpha = beta
predictRecall(model, elapsed) ==
  LET n == model[1] * model[3]
      d == model[1] * model[3] + model[2] * elapsed
  IN  IF d <= 0 THEN NaN ELSE [num |-> n, den |-> d]

\* the posterior: a success strengthens the model, the more the longer ago the
\* fact was seen; a failure weakens it
updateRecall(model, result, elapsed) ==
  IF result THEN <<model[1] + 1, model[2], model[3] + elapsed>>
  ELSE <<model[1], model[2] + 1, model[3]>>

NewMemory(t) ==
  [ebisu |-> defaultModel(halflife, ab), lastSeen |-> toISOString(t), version |-> "1"]

-----------------------------------------------------------------------------
\* Redux: the page store.

\* a JavaScript object with ordered keys is a sequence of <<key, value>>
EntryKeys(entries) == {entries[i][1] : i \in 1..Len(entries)}

Lookup(entries, k) ==
  IF k \in EntryKeys(entries)
    THEN (CHOOSE i \in 1..Len(entries) : entries[i][1] = k)
    ELSE 0

Get(entries, k) == IF Lookup(entries, k) = 0 THEN Undefined ELSE entries[Lookup(entries, k)][2]

Put(entries, k, v) ==
  IF Lookup(entries, k) = 0 THEN Append(entries, <<k, v>>)
  ELSE [entries EXCEPT ![Lookup(entries, k)] = <<k, v>>]

\* {...state.memories, ...action.memories}
RECURSIVE reducerUpdatingMemories(_, _)
reducerUpdatingMemories(old, new) ==
  IF new = <<>> THEN old
  ELSE reducerUpdatingMemories(Put(old, new[1][1], new[1][2]), Tail(new))

\* for (const f of action.facts) for (const k of f.keys) o[k] = f
RECURSIVE FactsByKey(_, _)
FactsByKey(fs, o) ==
  IF fs = <<>> THEN o
  ELSE LET f == Head(fs)
           ks == {f.keys[i] : i \in 1..Len(f.keys)}
       IN  FactsByKey(Tail(fs), [k \in DOMAIN o \cup ks |-> IF k \in ks THEN f ELSE o[k]])

\* reducerAddFacts filing the first fact of the action under every key
reducerAddFactsFirst(old, fs) ==
  LET o == FactsByKey(fs, EmptyDoc)
  IN  [k \in DOMAIN old \cup DOMAIN o |-> IF k \in DOMAIN o THEN Head(fs) ELSE old[k]]

reducerAddFacts(old, fs) ==
  LET o == FactsByKey(fs, EmptyDoc)
  IN  [k \in DOMAIN old \cup DOMAIN o |-> IF k \in DOMAIN o THEN o[k] ELSE old[k]]

\* reducer with addFacts keeping the facts of the action only
reducerReplacing(state, action) ==
  IF action.type = "addFacts"
    THEN [state EXCEPT !.facts = FactsByKey(action.facts, EmptyDoc)]
  ELSE IF action.type = "updatingMemories"
    THEN [state EXCEPT !.memories = reducerUpdatingMemories(state.memories, action.memories)]
  ELSE state

\* the reducer of the page store; Redux also sends it actions of its own types
reducer(state, action) ==
  IF action.type = "addFacts"
    THEN [state EXCEPT !.facts = reducerAddFacts(state.facts, action.facts)]
  ELSE IF action.type = "updatingMemories"
    THEN [state EXCEPT !.memories = reducerUpdatingMemories(state.memories, action.memories)]
  ELSE state

-----------------------------------------------------------------------------
\* The quiz state machine.

QuizInit == [state |-> "init"]
QuizPicking == [state |-> "picking"]
\* the component tree after a render threw: React unmounts it (no error boundary)
QuizCrashed == [state |-> "crashed"]

StartQuizSession == [type |-> "startQuizSession"]
DoneQuizSession == [type |-> "doneQuizSession"]
StartQuiz(fact, quizKey, parent) ==
  [type |-> "startQuiz", fact |-> fact, quizKey |-> quizKey, parent |-> parent]
FailQuiz(fact, quizKey, parent, response) ==
  [type |-> "failQuiz", fact |-> fact, quizKey |-> quizKey, parent |-> parent,
   response |-> response]

\* quizReducer with one entry of its table wrong: Presenting + doneQuizSession
\* answers Selecting
quizReducerNoDone(state, action) ==
  IF state.state = "init" /\ action.type = "startQuizSession" THEN QuizPicking
  ELSE IF state.state = "picking" /\ action.type = "startQuiz"
    THEN [state |-> "quizzing", action |-> action]
  ELSE IF state.state = "quizzing" /\ action.type = "failQuiz"
    THEN [state |-> "feedbacking", action |-> action]
  ELSE IF state.state = "quizzing" /\ action.type = "startQuizSession" THEN QuizPicking
  ELSE IF state.state = "quizzing" /\ action.type = "doneQuizSession" THEN QuizPicking
  ELSE IF state.state = "feedbacking" /\ action.type = "startQuizSession" THEN QuizPicking
  ELSE IF state.state = "feedbacking" /\ action.type = "doneQuizSession" THEN QuizInit
  ELSE Throws

\* quizReducer in the manner of a Redux reducer: an action it does not know
\* leaves the state as it is
quizReducerLenient(state, action) ==
  IF state.state = "init" /\ action.type = "startQuizSession" THEN QuizPicking
  ELSE IF state.state = "picking" /\ action.type = "startQuiz"
    THEN [state |-> "quizzing", action |-> action]
  ELSE IF state.state = "quizzing" /\ action.type = "failQuiz"
    THEN [state |-> "feedbacking", action |-> action]
  ELSE IF state.state = "quizzing" /\ action.type = "startQuizSession" THEN QuizPicking
  ELSE IF state.state = "quizzing" /\ action.type = "doneQuizSession" THEN QuizInit
  ELSE IF state.state = "feedbacking" /\ action.type = "startQuizSession" THEN QuizPicking
  ELSE IF state.state = "feedbacking" /\ action.type = "doneQuizSession" THEN QuizInit
  ELSE state

quizReducer(state, action) ==
  IF state.state = "init" /\ action.type = "startQuizSession" THEN QuizPicking
  ELSE IF state.state = "picking" /\ action.type = "startQuiz"
    THEN [state |-> "quizzing", action |-> action]
  ELSE IF state.state = "quizzing" /\ action.type = "failQuiz"
    THEN [state |-> "feedbacking", action |-> action]
  ELSE IF state.state = "quizzing" /\ action.type = "startQuizSession" THEN QuizPicking
  ELSE IF state.state = "quizzing" /\ action.type = "doneQuizSession" THEN QuizInit
  ELSE IF state.state = "feedbacking" /\ action.type = "startQuizSession" THEN QuizPicking
  ELSE IF state.state = "feedbacking" /\ action.type = "doneQuizSession" THEN QuizInit
  ELSE Throws

\* dispatch of useReducer: a reducer that throws takes the component tree down
Dispatch(q, action) ==
  IF q.state = "crashed" THEN q
  ELSE IF quizReducer(q, action) = Throws THEN QuizCrashed
  ELSE quizReducer(q, action)

-----------------------------------------------------------------------------
\* Quiz: what a render does.  Every dispatch and every change of the page store
\* renders Quiz synchronously; a dispatch made while rendering renders it again.

endsWith(key, token) == key # <<>> /\ key[Len(key)] = token

\* pickMapped without the time since lastSeen
pickMappedNoElapsed(entry, now) ==
  IF HasEbisu(entry[2])
    THEN predictRecall(entry[2].ebisu, 0)
    ELSE Infinity

\* the callback of argmin in the picking state
pickMapped(entry, now) ==
  IF HasEbisu(entry[2])
    THEN predictRecall(entry[2].ebisu, elapsedHours(now, entry[2].lastSeen))
    ELSE Infinity

\* argmin that lets a later element of equal finite value replace the earlier
RECURSIVE argminFromLast(_, _, _, _, _)
argminFromLast(arr, i, now, smallestIdx, smallestMapped) ==
  IF i > Len(arr) THEN smallestIdx
  ELSE IF \/ LessThan(pickMapped(arr[i], now), smallestMapped)
          \/ /\ pickMapped(arr[i], now).den # 0
             /\ ~LessThan(smallestMapped, pickMapped(arr[i], now))
    THEN argminFromLast(arr, i + 1, now, i, pickMapped(arr[i], now))
  ELSE argminFromLast(arr, i + 1, now, smallestIdx, smallestMapped)

\* curtiz-utils argmin: the index of the first element with the strictly smallest
\* mapped value; 0 when there is none (status.min is then undefined)
RECURSIVE argminFrom(_, _, _, _, _)
argminFrom(arr, i, now, smallestIdx, smallestMapped) ==
  IF i > Len(arr) THEN smallestIdx
  ELSE IF LessThan(pickMapped(arr[i], now), smallestMapped)
    THEN argminFrom(arr, i + 1, now, i, pickMapped(arr[i], now))
  ELSE argminFrom(arr, i + 1, now, smallestIdx, smallestMapped)

\* the index of status.min after argmin(Object.entries(memories), ...)
pick(mem, now) == argminFrom(mem, 1, now, 0, Infinity)

\* toQuizKey.split('/').slice(0, 2).join('/')
superkeyOf(key) ==
  LET parts == Split(key) IN JoinWith(SubSeq(parts, 1, IF Len(parts) < 2 THEN Len(parts) ELSE 2), "/")

parentKeyOf(key) == superkeyOf(key) \o <<"/", "meaning">>

\* parentOf answering the fact of the key itself
parentOfSelf(fcts, key) ==
  IF key \in DOMAIN fcts THEN fcts[key] ELSE Undefined

\* parent: parent && parent.factType === FactType.Sentence ? parent : undefined
parentOf(fcts, key) ==
  IF parentKeyOf(key) \in DOMAIN fcts /\ fcts[parentKeyOf(key)].factType = "sentence"
    THEN fcts[parentKeyOf(key)]
    ELSE Undefined

\* the render of FactQuiz throws
factQuizThrows(fact, quizKey, parent) ==
  IF fact.factType \in {"sentence", "vocab"}
    THEN ~(endsWith(quizKey, "meaning") \/ endsWith(quizKey, "reading"))
    ELSE parent = Undefined

RECURSIVE Render(_, _, _, _)

\* Render with the picking state going back to init when nothing can be picked
RenderIdle(q, mem, fcts, now) ==
  IF q.state = "picking" THEN
    LET min == pick(mem, now)
        toQuizKey == mem[min][1]
    IN  IF min = 0 THEN QuizInit
        ELSE IF toQuizKey \notin DOMAIN fcts THEN q
        ELSE Render(Dispatch(q, StartQuiz(fcts[toQuizKey], toQuizKey, parentOf(fcts, toQuizKey))),
                    mem, fcts, now)
  ELSE IF q.state = "quizzing" THEN
    IF ~HasEbisu(Get(mem, q.action.quizKey))
      THEN Render(Dispatch(q, StartQuizSession), mem, fcts, now)
    ELSE IF factQuizThrows(q.action.fact, q.action.quizKey, q.action.parent) THEN QuizCrashed
    ELSE q
  ELSE q

\* Render without the quizzing state's test for an unlearned key
RenderStay(q, mem, fcts, now) ==
  IF q.state = "picking" THEN
    LET min == pick(mem, now)
        toQuizKey == mem[min][1]
    IN  IF min = 0 THEN q
        ELSE IF toQuizKey \notin DOMAIN fcts THEN q
        ELSE Render(Dispatch(q, StartQuiz(fcts[toQuizKey], toQuizKey, parentOf(fcts, toQuizKey))),
                    mem, fcts, now)
  ELSE IF q.state = "quizzing" THEN
    IF factQuizThrows(q.action.fact, q.action.quizKey, q.action.parent) THEN QuizCrashed
    ELSE q
  ELSE q

Render(q, mem, fcts, now) ==
  IF q.state = "picking" THEN
    LET min == pick(mem, now)
        toQuizKey == mem[min][1]
    IN  IF min = 0 THEN q
        ELSE IF toQuizKey \notin DOMAIN fcts THEN q
        ELSE Render(Dispatch(q, StartQuiz(fcts[toQuizKey], toQuizKey, parentOf(fcts, toQuizKey))),
                    mem, fcts, now)
  ELSE IF q.state = "quizzing" THEN
    IF ~HasEbisu(Get(mem, q.action.quizKey))
      THEN Render(Dispatch(q, StartQuizSession), mem, fcts, now)
    ELSE IF factQuizThrows(q.action.fact, q.action.quizKey, q.action.parent) THEN QuizCrashed
    ELSE q
  ELSE q

\* Object.values(memories).filter(o => !!o.ebisu).length
possible(mem) == Cardinality({i \in 1..Len(mem) : HasEbisu(mem[i][2])})

-----------------------------------------------------------------------------
\* The store's key order and reviewSentence's range scan.

\* the characters in code-point order; "uFFF0" is the character \ufff0 and "^"
\* a character above it
CharOrder == <<" ", ",", "/", "_", "conjugated", "meaning", "model", "particle", "quiz",
               "reading", "g", "h", "v", "H", "K", "uFFF0", "^">>

Rank(c) == CHOOSE i \in 1..Len(CharOrder) : CharOrder[i] = c

RECURSIVE LexLess(_, _)
LexLess(a, b) ==
  IF b = <<>> THEN FALSE
  ELSE IF a = <<>> THEN TRUE
  ELSE IF Head(a) = Head(b) THEN LexLess(Tail(a), Tail(b))
  ELSE Rank(Head(a)) < Rank(Head(b))

RECURSIVE SortKeys(_)
SortKeys(S) ==
  IF S = {} THEN <<>>
  ELSE LET m == CHOOSE x \in S : \A y \in S \ {x} : LexLess(x, y)
       IN  <<m>> \o SortKeys(S \ {m})

LexLeq(a, b) == a = b \/ LexLess(a, b)

\* InScan with the start of the range at the root itself
InScanOpen(id, superkey) ==
  /\ LexLeq(superkey, id)
  /\ LexLeq(id, superkey \o <<"/", "uFFF0">>)

\* db.allDocs({startkey: superkey + '/', endkey: superkey + '/\ufff0'}): the live
\* documents with startkey <= id <= endkey, in key order
InScan(id, superkey) ==
  /\ LexLeq(superkey \o <<"/">>, id)
  /\ LexLeq(id, superkey \o <<"/", "uFFF0">>)

allDocs(store, superkey) ==
  SortKeys({k \in DOMAIN store : ~IsMissing(store[k]) /\ InScan(k, superkey)})

-----------------------------------------------------------------------------
\* FactQuiz: the click handlers.

\* what the user may have typed: the particle's cloze, and a katakana text
Inputs == { <<"g">>, <<"H">> }

\* a string argument that may be left out: Undefined, or [str |-> text]
Str(text) == [str |-> text]

\* what one click on a button of FactQuiz hands to reviewSentence and, after it,
\* to dispatch: result, the response argument, and the response of failQuiz
Handler(result, response, input) ==
  [result |-> result, response |-> response,
   failResponse |-> IF result THEN <<>> ELSE input]

\* the onClick of a Submit button, with `input` typed into the form
submitHandler(fact, input) ==
  IF fact.factType = "sentence"
    THEN Handler(RemoveWhitespace(furiganaToHiragana(fact.furigana))
                   = RemoveWhitespace(kata2hira(input)),
                 Str(kata2hira(input)), input)
  ELSE IF fact.factType = "vocab"
    THEN Handler(\E i \in 1..Len(fact.kanjiKana) :
                    /\ ~hasKanji(fact.kanjiKana[i])
                    /\ kata2hira(fact.kanjiKana[i]) = Trim(kata2hira(input)),
                 Str(Trim(kata2hira(input))), input)
  ELSE IF fact.factType = "conjugated"
    THEN Handler(furiganaToRuby(fact.expected) = RemoveWhitespace(kata2hira(input)),
                 Str(kata2hira(input)), input)
  ELSE Handler(fact.cloze = RemoveWhitespace(kata2hira(input)),
               Str(kata2hira(input)), input)

factQuizHandlers(fact, quizKey) ==
  IF fact.factType \in {"sentence", "vocab"} /\ endsWith(quizKey, "meaning")
    THEN {Handler(b, Undefined, <<>>) : b \in BOOLEAN}
    ELSE {submitHandler(fact, input) : input \in Inputs}

\* the action a handler dispatches once reviewSentence has resolved
handlerAction(r) ==
  IF r.result THEN StartQuizSession
  ELSE FailQuiz(r.fact, r.quizKey, r.parent, r.failResponse)

ReviewDone == [phase |-> "done"]

-----------------------------------------------------------------------------
\* reviewSentence: the merge function of its upsert, and the event it records.

\* reviewEvent taking every related key for the active one
reviewEventAllActive(key, quizKey, old, r) ==
  LET active == TRUE
      newEbisu == IF active
                    THEN updateRecall(old.ebisu, r.result, elapsedHours(r.date, old.lastSeen))
                    ELSE old.ebisu
  IN  [version |-> "1", modelKey |-> key, active |-> active,
       date |-> toISOString(r.date), result |-> r.result, newEbisu |-> newEbisu,
       extra |-> IF r.response # Undefined /\ r.response.str # <<>>
                   THEN [response |-> r.response.str] ELSE EmptyDoc,
       oldEbisu |-> old.ebisu, lastSeen |-> old.lastSeen]

reviewEvent(key, quizKey, old, r) ==
  LET active == key = quizKey
      newEbisu == IF active
                    THEN updateRecall(old.ebisu, r.result, elapsedHours(r.date, old.lastSeen))
                    ELSE old.ebisu
  IN  [version |-> "1", modelKey |-> key, active |-> active,
       date |-> toISOString(r.date), result |-> r.result, newEbisu |-> newEbisu,
       extra |-> IF r.response # Undefined /\ r.response.str # <<>>
                   THEN [response |-> r.response.str] ELSE EmptyDoc,
       oldEbisu |-> old.ebisu, lastSeen |-> old.lastSeen]

\* reviewUpsert updating the prior of a new memory, not the model it read
reviewUpsertFromPrior(key, quizKey, old, r) ==
  IF "ebisu" \in DOMAIN old /\ "lastSeen" \in DOMAIN old
    THEN Spread(old, [version |-> "1",
                      ebisu |-> IF key = quizKey
                                  THEN updateRecall(defaultModel(halflife, ab), r.result,
                                                    elapsedHours(r.date, old.lastSeen))
                                  ELSE old.ebisu,
                      lastSeen |-> toISOString(r.date)])
    ELSE old

\* reviewUpsert updating the active key as if no time had passed
reviewUpsertNoElapsed(key, quizKey, old, r) ==
  IF "ebisu" \in DOMAIN old /\ "lastSeen" \in DOMAIN old
    THEN Spread(old, [version |-> "1",
                      ebisu |-> IF key = quizKey THEN updateRecall(old.ebisu, r.result, 0)
                                ELSE old.ebisu,
                      lastSeen |-> toISOString(r.date)])
    ELSE old

\* old => {...old, ...newModel} when old holds a model, old otherwise
reviewUpsert(key, quizKey, old, r) ==
  IF "ebisu" \in DOMAIN old /\ "lastSeen" \in DOMAIN old
    THEN Spread(old, [version |-> "1",
                      ebisu |-> reviewEvent(key, quizKey, old, r).newEbisu,
                      lastSeen |-> toISOString(r.date)])
    ELSE old

\* learnUnlearn's merge function
learnUnlearnDoc(old, learn, now) ==
  IF ~learn THEN Missing ELSE Spread(old, NewMemory(now))

\* the revision learnUnlearn's merge function returns: a tombstone keeps the
\* fields of the document it deletes (learnUnlearnDoc is that revision as
\* db.get, db.allDocs and the change listener see it)
learnUnlearnRev(old, learn, now) ==
  IF ~learn THEN Spread(old, [deleted |-> TRUE]) ELSE Spread(old, NewMemory(now))

\* upsertOld handing the merge function the tombstone itself
upsertOldTombstone(doc) == doc

\* pouchdb-upsert hands the merge function {} when db.get answers 404
upsertOld(doc) == IF IsMissing(doc) THEN EmptyDoc ELSE doc

Change(id, doc) == [id |-> id, deleted |-> IsMissing(doc), doc |-> doc]

-----------------------------------------------------------------------------
\* The system: the page, the store, the quiz and the reviews in flight.

NoDocs == [k \in {} |-> EmptyDoc]

\* arg and ret while no pure function is applied on its own
Unset == [unset |-> TRUE]

Init ==
  /\ loaded = FALSE
  /\ facts = NoDocs
  /\ memories = <<>>
  /\ db \in [Keys -> {Missing, NewMemory(0)}]
  /\ quizDocs = NoDocs
  /\ changesQ = <<>>
  /\ initPos = 0
  /\ initMem = <<>>
  /\ quiz = QuizInit
  /\ reviews = <<>>
  /\ nLearn = 0
  /\ clock = 0
  /\ component = Unset
  /\ arg = Unset
  /\ ret = Unset

\* setup(): addKeys, dispatch addFacts, start init(allKeys), subscribe to changes
Setup ==
  /\ ~loaded
  /\ PageFact # Throws
  /\ loaded' = TRUE
  /\ facts' = reducerAddFacts(facts, PageFacts)
  /\ initPos' = 1
  /\ quiz' = Render(quiz, memories, facts', clock)
  /\ UNCHANGED <<memories, db, quizDocs, changesQ, initMem, reviews, nLearn, clock, arg, ret,
                 component>>

\* init(): one db.get resolves; after the last one the snapshot is dispatched
InitGet ==
  /\ loaded
  /\ initPos \in 1..Len(allKeys)
  /\ LET key == allKeys[initPos]
         snapshot == Append(initMem, <<key, upsertOld(db[key])>>)
     IN  IF initPos < Len(allKeys)
           THEN /\ initMem' = snapshot
                /\ UNCHANGED <<memories, quiz>>
           ELSE /\ initMem' = <<>>
                /\ memories' = reducerUpdatingMemories(memories, snapshot)
                /\ quiz' = Render(quiz, memories', facts, clock)
  /\ initPos' = initPos + 1
  /\ UNCHANGED <<loaded, facts, db, quizDocs, changesQ, reviews, nLearn, clock, arg, ret,
                 component>>

\* foldChange storing the notification's document whether deleted or not
foldChangeNoTombstone(mem, change) ==
  reducerUpdatingMemories(mem, << <<change.id, change.doc>> >>)

\* the change listener's dispatch: {[change.id]: change.deleted ? {} : change.doc}
foldChange(mem, change) ==
  reducerUpdatingMemories(mem,
    << <<change.id, IF change.deleted THEN EmptyDoc ELSE change.doc>> >>)

\* the change listener of setup(): one notification is folded into the page store
Deliver ==
  /\ changesQ # <<>>
  /\ memories' = foldChange(memories, Head(changesQ))
  /\ changesQ' = Tail(changesQ)
  /\ quiz' = Render(quiz, memories', facts, clock)
  /\ UNCHANGED <<loaded, facts, db, quizDocs, initPos, initMem, reviews, nLearn, clock, arg, ret,
                 component>>

\* A store operation or a notification in flight lasts far less than the clock's
\* unit: half an hour passes only while nothing is in flight.
Quiescent ==
  /\ changesQ = <<>>
  /\ \A i \in 1..Len(reviews) : reviews[i] = ReviewDone
  /\ initPos = 0 \/ initPos > Len(allKeys)

Tick ==
  /\ clock < MaxClock
  /\ Quiescent
  /\ clock' = clock + 1
  /\ UNCHANGED <<loaded, facts, memories, db, quizDocs, changesQ, initPos, initMem,
                 quiz, reviews, nLearn, arg, ret,
                 component>>

\* a click on a learn / unlearn button, once the initial load is over:
\* learnUnlearn's upsert
LearnUnlearn ==
  /\ initPos > Len(allKeys)
  /\ nLearn < MaxLearn
  /\ \E key \in Keys, learn \in BOOLEAN :
       LET doc == learnUnlearnDoc(upsertOld(db[key]), learn, clock)
       IN  /\ db' = [db EXCEPT ![key] = doc]
           /\ changesQ' = Append(changesQ, Change(key, doc))
  /\ nLearn' = nLearn + 1
  /\ UNCHANGED <<loaded, facts, memories, quizDocs, initPos, initMem, quiz, reviews,
                 clock, arg, ret,
                 component>>

\* a click on "Review!", in the init state (shown when a fact is known) or in
\* the feedbacking state
ClickReview ==
  /\ \/ quiz.state = "init" /\ possible(memories) # 0
     \/ quiz.state = "feedbacking"
  /\ quiz' = Render(Dispatch(quiz, StartQuizSession), memories, facts, clock)
  /\ UNCHANGED <<loaded, facts, memories, db, quizDocs, changesQ, initPos, initMem,
                 reviews, nLearn, clock, arg, ret,
                 component>>

\* a click on a button of FactQuiz: the handler starts reviewSentence (db.allDocs)
Submit ==
  /\ quiz.state = "quizzing"
  /\ Len(reviews) < MaxReviews
  /\ \E h \in factQuizHandlers(quiz.action.fact, quiz.action.quizKey) :
       reviews' = Append(reviews,
         [phase |-> "scan", quizKey |-> quiz.action.quizKey, fact |-> quiz.action.fact,
          parent |-> quiz.action.parent, result |-> h.result, response |-> h.response,
          failResponse |-> h.failResponse, date |-> 0, relatedKeys |-> <<>>,
          pending |-> {}, events |-> NoDocs, logPending |-> {}, rand |-> 0])
  /\ UNCHANGED <<loaded, facts, memories, db, quizDocs, changesQ, initPos, initMem,
                 quiz, nLearn, clock, arg, ret,
                 component>>

\* reviewSentence resolves and the handler dispatches, in the same turn of the event loop
Resolve(i) ==
  /\ reviews' = [reviews EXCEPT ![i] = ReviewDone]
  /\ quiz' = Render(Dispatch(quiz, handlerAction(reviews[i])), memories, facts, clock)

\* db.allDocs resolves: the related keys, the date, and the upserts are started
Scan ==
  \E i \in 1..Len(reviews) :
    /\ reviews[i].phase = "scan"
    /\ LET related == allDocs(db, superkeyOf(reviews[i].quizKey))
       IN  IF related = <<>>
             THEN Resolve(i)
             ELSE /\ reviews' = [reviews EXCEPT ![i] =
                       [@ EXCEPT !.phase = "upsert", !.date = clock, !.relatedKeys = related,
                                 !.pending = {related[j] : j \in 1..Len(related)}]]
                  /\ UNCHANGED quiz
    /\ UNCHANGED <<loaded, facts, memories, db, quizDocs, changesQ, initPos, initMem,
                   nLearn, clock, arg, ret,
                 component>>

\* one db.upsert of a model resolves; after the last one the event writes start
Upsert ==
  \E i \in 1..Len(reviews) :
    /\ reviews[i].phase = "upsert"
    /\ \E key \in reviews[i].pending :
         LET r == reviews[i]
             old == upsertOld(db[key])
             doc == reviewUpsert(key, r.quizKey, old, r)
             events == IF HasEbisu(old) /\ "lastSeen" \in DOMAIN old
                         THEN [k \in DOMAIN r.events \cup {key} |->
                                 IF k = key THEN reviewEvent(key, r.quizKey, old, r)
                                 ELSE r.events[k]]
                         ELSE r.events
             last == r.pending = {key}
         IN  /\ db' = [db EXCEPT ![key] = doc]
             /\ changesQ' = Append(changesQ, Change(key, doc))
             /\ reviews' = [reviews EXCEPT ![i] =
                  [@ EXCEPT !.pending = r.pending \ {key}, !.events = events,
                            !.phase = IF last THEN "log" ELSE "upsert",
                            !.rand = IF last THEN i ELSE 0,
                            !.logPending = IF last THEN 1..Len(r.relatedKeys) ELSE {}]]
    /\ UNCHANGED <<loaded, facts, memories, quizDocs, initPos, initMem, quiz, nLearn,
                   clock, arg, ret,
                 component>>

\* eventKeyOf without the index of the related key
eventKeyOfNoIndex(r, j) == <<"quiz", r.date, r.rand, 0>>

\* eventKeyOf without the random suffix
eventKeyOfNoRand(r, j) == <<"quiz", r.date, 0, j>>

\* `quiz/${stringyDate}-${rand}-${i}`: the key of the j-th event document of a
\* review.  rand is the review's draw of Math.random(): a value that no other
\* review draws (in the system, the review's own number).
eventKeyOf(r, j) == <<"quiz", r.date, r.rand, j>>

\* Log with reviewSentence resolving as soon as one event write has resolved
LogEarly ==
  \E i \in 1..Len(reviews) :
    /\ reviews[i].phase = "log"
    /\ \E j \in {k \in reviews[i].logPending : \A k2 \in reviews[i].logPending : k <= k2} :
         LET r == reviews[i]
             eventKey == eventKeyOf(r, j)
             modelKey == r.relatedKeys[j]
             old == IF eventKey \in DOMAIN quizDocs THEN quizDocs[eventKey] ELSE EmptyDoc
             doc == IF modelKey \in DOMAIN r.events THEN Spread(old, r.events[modelKey]) ELSE old
         IN  /\ quizDocs' = [k \in DOMAIN quizDocs \cup {eventKey} |->
                               IF k = eventKey THEN doc ELSE quizDocs[k]]
             /\ Resolve(i)
    /\ UNCHANGED <<loaded, facts, memories, db, changesQ, initPos, initMem, nLearn,
                   clock, arg, ret,
                 component>>

\* one db.upsert of an event resolves; after the last one reviewSentence resolves.
\* The event writes of one review touch documents of their own that nothing
\* reads: their relative order shows nowhere, and they are taken in index order.
Log ==
  \E i \in 1..Len(reviews) :
    /\ reviews[i].phase = "log"
    /\ \E j \in {k \in reviews[i].logPending : \A k2 \in reviews[i].logPending : k <= k2} :
         LET r == reviews[i]
             eventKey == eventKeyOf(r, j)
             modelKey == r.relatedKeys[j]
             old == IF eventKey \in DOMAIN quizDocs THEN quizDocs[eventKey] ELSE EmptyDoc
             doc == IF modelKey \in DOMAIN r.events THEN Spread(old, r.events[modelKey]) ELSE old
         IN  /\ quizDocs' = [k \in DOMAIN quizDocs \cup {eventKey} |->
                               IF k = eventKey THEN doc ELSE quizDocs[k]]
             /\ IF r.logPending = {j}
                  THEN Resolve(i)
                  ELSE /\ reviews' = [reviews EXCEPT ![i].logPending = r.logPending \ {j}]
                       /\ UNCHANGED quiz
    /\ UNCHANGED <<loaded, facts, memories, db, changesQ, initPos, initMem, nLearn,
                   clock, arg, ret,
                 component>>

Next ==
  \/ Setup
  \/ InitGet
  \/ Deliver
  \/ Tick
  \/ LearnUnlearn
  \/ ClickReview
  \/ Submit
  \/ Scan
  \/ Upsert
  \/ Log

Spec == Init /\ [][Next]_vars

-----------------------------------------------------------------------------
\* quizReducer alone: one call on any state and any action of the page's facts.

PureSys ==
  /\ loaded = FALSE
  /\ facts = NoDocs
  /\ memories = <<>>
  /\ db = [k \in Keys |-> Missing]
  /\ quizDocs = NoDocs
  /\ changesQ = <<>>
  /\ initPos = 0
  /\ initMem = <<>>
  /\ quiz = QuizInit
  /\ reviews = <<>>
  /\ nLearn = 0
  /\ clock = 0
  /\ component = Unset

FactSet == {PageFacts[i] : i \in 1..Len(PageFacts)}

StartQuizActions ==
  {StartQuiz(f, k, p) : f \in FactSet, k \in Keys, p \in {Undefined, PageFact}}

FailQuizActions ==
  {FailQuiz(a.fact, a.quizKey, a.parent, response) :
     a \in StartQuizActions, response \in {<<>>} \cup Inputs}

QuizStates ==
  {QuizInit, QuizPicking}
    \cup {[state |-> "quizzing", action |-> a] : a \in StartQuizActions}
    \cup {[state |-> "feedbacking", action |-> a] : a \in FailQuizActions}

QuizActions ==
  {StartQuizSession, DoneQuizSession} \cup StartQuizActions \cup FailQuizActions

InitReducer ==
  /\ PureSys
  /\ arg \in {[state |-> s, action |-> a] : s \in QuizStates, a \in QuizActions}
  /\ ret = Unset

CallReducer ==
  /\ ret = Unset
  /\ ret' = quizReducer(arg.state, arg.action)
  /\ UNCHANGED <<arg, sysvars>>

NextReducer == CallReducer

SpecReducer == InitReducer /\ [][NextReducer]_vars

\* the pairs of the transition table
InTable(state, action) ==
  \/ state.state = "init" /\ action.type = "startQuizSession"
  \/ state.state = "picking" /\ action.type = "startQuiz"
  \/ state.state = "quizzing" /\ action.type \in {"failQuiz", "startQuizSession", "doneQuizSession"}
  \/ state.state = "feedbacking" /\ action.type \in {"startQuizSession", "doneQuizSession"}

Presenting(key, fact, parent) ==
  [state |-> "quizzing", action |-> StartQuiz(fact, key, parent)]

Feedback(key, fact, parent, response) ==
  [state |-> "feedbacking", action |-> FailQuiz(fact, key, parent, response)]

UnlistedThrows ==
  ret # Unset => (~InTable(arg.state, arg.action) => ret = Throws)

\* a second failQuiz reached the feedbacking state, and was rejected
UnlistedThrowsWitness ==
  /\ arg # Unset
  /\ arg.state.state = "feedbacking"
  /\ arg.action.type = "failQuiz"
  /\ ret = Throws

-----------------------------------------------------------------------------
\* The scheduler alone: one render of the picking state over any page store.

PickEbisu ==
  {defaultModel(halflife, ab),
   updateRecall(defaultModel(halflife, ab), TRUE, 1),
   updateRecall(defaultModel(halflife, ab), FALSE, 1)}

PickMemories ==
  {EmptyDoc} \cup
  {[ebisu |-> e, lastSeen |-> toISOString(t), version |-> "1"] :
     e \in PickEbisu, t \in 0..MaxElapsed}

\* the page stores: up to three entries, of distinct keys, in any order
PickStores ==
  UNION {{m \in [1..n -> Keys \X PickMemories] :
            \A i, j \in 1..n : m[i][1] = m[j][1] => i = j} : n \in 0..Cardinality(Keys)}

InitPick ==
  /\ PureSys
  /\ arg \in {[mem |-> m, now |-> MaxElapsed] : m \in PickStores}
  /\ ret = Unset

CallPick ==
  /\ ret = Unset
  /\ ret' = Render(QuizPicking, arg.mem, reducerAddFacts(NoDocs, PageFacts), arg.now)
  /\ UNCHANGED <<arg, sysvars>>

NextPick == CallPick

SpecPick == InitPick /\ [][NextPick]_vars

\* the entries of a page store that hold a model, and their recall at `now`
Present(mem) == {i \in 1..Len(mem) : HasEbisu(mem[i][2])}

Recall(mem, i, now) == predictRecall(mem[i][2].ebisu, now - DateValue(mem[i][2].lastSeen))

\* C4: the picking state starts the quiz of a key whose model is present and
\* whose predicted recall at the current time is the least among the present
\* models; it never starts the quiz of a key whose model is absent; and it
\* starts no quiz exactly when no model is present.
PicksLeastRecall ==
  ret # Unset =>
    /\ Present(arg.mem) = {} <=> ret = QuizPicking
    /\ Present(arg.mem) # {} =>
         \E i \in Present(arg.mem) :
           /\ ret.state = "quizzing"
           /\ ret.action.quizKey = arg.mem[i][1]
           /\ \A j \in Present(arg.mem) :
                ~LessThan(Recall(arg.mem, j, arg.now), Recall(arg.mem, i, arg.now))

\* the first key is unknown, the third has a smaller recall than the second,
\* and the third is picked
PicksLeastRecallWitness ==
  /\ ret # Unset
  /\ Len(arg.mem) = 3
  /\ Present(arg.mem) = {2, 3}
  /\ LessThan(Recall(arg.mem, 3, arg.now), Recall(arg.mem, 2, arg.now))
  /\ ret.state = "quizzing"
  /\ ret.action.quizKey = arg.mem[3][1]

-----------------------------------------------------------------------------
\* The composed system: Quiz, FactQuiz, reviewSentence, the learn and unlearn
\* buttons and the change notifications.

\* C3: no interleaving of clicks, store writes and notifications dispatches to
\* quizReducer an action that is invalid for the state it is in: the reducer
\* never throws, and the Quiz component is never taken down.
NoInvalidDispatch == quiz.state # "crashed"

FeedbackOfPresented ==
  [][quiz.state = "quizzing" /\ quiz'.state = "feedbacking" =>
       /\ quiz'.action.quizKey = quiz.action.quizKey
       /\ quiz'.action.fact = quiz.action.fact
       /\ quiz'.action.parent = quiz.action.parent]_vars

\* C7: the quiz of a key whose model is absent from the page store is never
\* presented; and when the model of the presented key becomes absent, the
\* session re-picks in the same step: it rests in picking if no model is
\* present, and else presents the key the scheduler picks.
AbsentNeverPresented ==
  /\ [](quiz.state = "quizzing" => HasEbisu(Get(memories, quiz.action.quizKey)))
  /\ [][quiz.state = "quizzing" /\ ~HasEbisu(Get(memories', quiz.action.quizKey)) =>
          \/ quiz'.state = "picking" /\ possible(memories') = 0
          \/ /\ quiz'.state = "quizzing"
             /\ quiz'.action.quizKey # quiz.action.quizKey
             /\ pick(memories', clock') # 0
             /\ quiz'.action.quizKey = memories'[pick(memories', clock')][1]]_vars

\* the only known key was unlearned while its quiz was presented, with no
\* answer ever submitted: its tombstone is folded in and the session is picking
AbsentNeverPresentedWitness ==
  /\ quiz.state = "picking"
  /\ reviews = <<>>
  /\ changesQ = <<>>
  /\ \E k \in Keys : IsMissing(db[k]) /\ Get(memories, k) = EmptyDoc /\ nLearn = 1

\* the step in which review i's upsert of `key` resolves
UpsertStep(i, key) ==
  /\ reviews[i].phase = "upsert"
  /\ key \in reviews[i].pending
  /\ reviews'[i].phase \in {"upsert", "log"}
  /\ key \notin reviews'[i].pending

\* C8: the upsert of a review replaces the stored model of the active key by
\* updateRecall of the model it read, the result and the hours from the
\* lastSeen it read to the review's date, and sets lastSeen of every related
\* key that holds a model, active or not, to the one date of the review.
ReviewUpdatesActive ==
  [][\A i \in 1..Len(reviews) : \A key \in Keys :
       UpsertStep(i, key) /\ HasEbisu(db[key]) =>
         /\ reviews'[i].date = reviews[i].date
         /\ HasEbisu(db'[key])
         /\ db'[key].lastSeen = toISOString(reviews[i].date)
         /\ key = reviews[i].quizKey =>
              db'[key].ebisu =
                updateRecall(db[key].ebisu, reviews[i].result,
                             reviews[i].date - DateValue(db[key].lastSeen))]_vars

\* a success, reviewed one clock unit after the key was last seen, is stored
ReviewUpdatesActiveWitness ==
  \E i \in 1..Len(reviews) :
    /\ reviews[i] # ReviewDone
    /\ reviews[i].phase = "log"
    /\ reviews[i].result
    /\ reviews[i].date = 1
    /\ nLearn = 0
    /\ db[reviews[i].quizKey].ebisu = updateRecall(defaultModel(halflife, ab), TRUE, 1)
    /\ db[reviews[i].quizKey].lastSeen = toISOString(1)

\* C9: the upsert of a related key other than the active one, when the key
\* holds a model, changes its lastSeen and nothing else of its document; and
\* no upsert of a review changes the document of a key under another root.
PassiveKeepsEbisu ==
  [][\A i \in 1..Len(reviews) : \A key \in Keys :
       UpsertStep(i, key) =>
         /\ key # reviews[i].quizKey /\ HasEbisu(db[key]) =>
              /\ DOMAIN db'[key] = DOMAIN db[key]
              /\ \A f \in DOMAIN db[key] \ {"lastSeen"} : db'[key][f] = db[key][f]
         /\ \A k \in Keys :
              superkeyOf(k) # superkeyOf(reviews[i].quizKey) => db'[k] = db[k]]_vars

\* a review of one key of the sentence has refreshed the lastSeen of the
\* sentence's other key and left its ebisu, while the vocabulary's key, of
\* another root, holds its model as it was
PassiveKeepsEbisuWitness ==
  \E i \in 1..Len(reviews) :
    /\ reviews[i] # ReviewDone
    /\ reviews[i].phase = "log"
    /\ reviews[i].date = 1
    /\ nLearn = 0
    /\ \E k \in Keys :
         /\ k # reviews[i].quizKey
         /\ \E j \in 1..Len(reviews[i].relatedKeys) : reviews[i].relatedKeys[j] = k
         /\ db[k] = [NewMemory(0) EXCEPT !.lastSeen = toISOString(1)]
    /\ \E k \in Keys :
         /\ superkeyOf(k) # superkeyOf(reviews[i].quizKey)
         /\ db[k] = NewMemory(0)

\* C10: a review creates no live document for a key that holds no model:
\* every document of the store is either missing or a model.
NoLiveDocWithoutModel ==
  \A k \in Keys : IsMissing(db[k]) \/ HasEbisu(db[k])

\* C11: a review starts one upsert per related key; it writes events only once
\* every one of its upserts has resolved, one event per related key; and it
\* resolves (after which its handler dispatches) only when every upsert and
\* every event write has resolved.
WritesBeforeSuccess ==
  /\ [](\A i \in 1..Len(reviews) :
          /\ reviews[i].phase = "upsert" => reviews[i].logPending = {}
          /\ reviews[i].phase = "log" =>
               /\ reviews[i].pending = {}
               /\ reviews[i].logPending \subseteq 1..Len(reviews[i].relatedKeys)
               /\ \A j \in 1..Len(reviews[i].relatedKeys) :
                    j \notin reviews[i].logPending =>
                      eventKeyOf(reviews[i], j) \in DOMAIN quizDocs)
  /\ [][quizDocs' # quizDocs =>
          \E i \in 1..Len(reviews) :
            /\ reviews[i].phase = "log"
            /\ reviews[i].pending = {}
            /\ reviews'[i] # reviews[i]]_vars
  /\ [][\A i \in 1..Len(reviews) :
          /\ reviews[i].phase = "scan" /\ reviews'[i].phase = "upsert" =>
               reviews'[i].pending =
                 {reviews'[i].relatedKeys[j] : j \in 1..Len(reviews'[i].relatedKeys)}
          /\ reviews[i].phase = "upsert" /\ reviews'[i].phase = "log" =>
               /\ Cardinality(reviews[i].pending) = 1
               /\ reviews'[i].logPending = 1..Len(reviews[i].relatedKeys)
          /\ reviews[i].phase # "done" /\ reviews'[i].phase = "done" =>
               \/ reviews[i].phase = "scan" /\ allDocs(db, superkeyOf(reviews[i].quizKey)) = <<>>
               \/ /\ reviews[i].phase = "log"
                  /\ reviews[i].pending = {}
                  /\ \A j \in 1..Len(reviews[i].relatedKeys) :
                       eventKeyOf(reviews[i], j) \in DOMAIN quizDocs']_vars

\* a review of a key with a learned sibling has resolved: two upserts, then
\* two event documents
WritesBeforeSuccessWitness ==
  /\ Len(reviews) = 1
  /\ reviews[1] = ReviewDone
  /\ Cardinality(DOMAIN quizDocs) = 2

\* C12: every document under quiz/ holds the fields of an event: the model
\* key, the active flag, the date, the result and the old and new ebisu.
EventsAreComplete ==
  \A k \in DOMAIN quizDocs :
    {"modelKey", "active", "date", "result", "oldEbisu", "newEbisu"} \subseteq DOMAIN quizDocs[k]

-----------------------------------------------------------------------------
\* The composed system with a store whose operations may fail.  A rejected
\* operation rejects reviewSentence at once (await, Promise.all); the handler's
\* await then throws and the handler ends before its dispatch.  The operations
\* of the same Promise.all that were already started still run to their end.

SubmitFallible ==
  /\ Len(reviews) < MaxFailReviews
  /\ Submit

\* FailScan with the handler dispatching all the same
FailScanDispatch ==
  \E i \in 1..Len(reviews) :
    /\ reviews[i].phase = "scan"
    /\ reviews' = [reviews EXCEPT ![i].phase = "failed"]
    /\ quiz' = Render(Dispatch(quiz, handlerAction(reviews[i])), memories, facts, clock)
    /\ UNCHANGED <<loaded, facts, memories, db, quizDocs, changesQ, initPos, initMem,
                   nLearn, clock, arg, ret,
                 component>>

\* db.allDocs rejects
FailScan ==
  \E i \in 1..Len(reviews) :
    /\ reviews[i].phase = "scan"
    /\ reviews' = [reviews EXCEPT ![i].phase = "failed"]
    /\ UNCHANGED <<loaded, facts, memories, db, quizDocs, changesQ, initPos, initMem,
                   quiz, nLearn, clock, arg, ret,
                 component>>

\* one db.upsert of a model rejects: nothing is written for its key
FailUpsert ==
  \E i \in 1..Len(reviews) :
    /\ reviews[i].phase = "upsert"
    /\ \E key \in reviews[i].pending :
         reviews' = [reviews EXCEPT ![i].phase = "failed",
                                    ![i].pending = reviews[i].pending \ {key}]
    /\ UNCHANGED <<loaded, facts, memories, db, quizDocs, changesQ, initPos, initMem,
                   quiz, nLearn, clock, arg, ret,
                 component>>

\* one db.upsert of an event rejects
FailLog ==
  \E i \in 1..Len(reviews) :
    /\ reviews[i].phase = "log"
    /\ \E j \in reviews[i].logPending :
         reviews' = [reviews EXCEPT ![i].phase = "failed",
                                    ![i].logPending = reviews[i].logPending \ {j}]
    /\ UNCHANGED <<loaded, facts, memories, db, quizDocs, changesQ, initPos, initMem,
                   quiz, nLearn, clock, arg, ret,
                 component>>

\* an upsert started before the rejection resolves after it; no event write
\* follows, and nothing is dispatched
OrphanUpsert ==
  \E i \in 1..Len(reviews) :
    /\ reviews[i].phase = "failed"
    /\ \E key \in reviews[i].pending :
         LET r == reviews[i]
             doc == reviewUpsert(key, r.quizKey, upsertOld(db[key]), r)
         IN  /\ db' = [db EXCEPT ![key] = doc]
             /\ changesQ' = Append(changesQ, Change(key, doc))
             /\ reviews' = [reviews EXCEPT ![i].pending = r.pending \ {key}]
    /\ UNCHANGED <<loaded, facts, memories, quizDocs, initPos, initMem, quiz, nLearn,
                   clock, arg, ret,
                 component>>

\* an event write started before the rejection resolves after it
OrphanLog ==
  \E i \in 1..Len(reviews) :
    /\ reviews[i].phase = "failed"
    /\ \E j \in reviews[i].logPending :
         LET r == reviews[i]
             eventKey == eventKeyOf(r, j)
             modelKey == r.relatedKeys[j]
             old == IF eventKey \in DOMAIN quizDocs THEN quizDocs[eventKey] ELSE EmptyDoc
             doc == IF modelKey \in DOMAIN r.events THEN Spread(old, r.events[modelKey]) ELSE old
         IN  /\ quizDocs' = [k \in DOMAIN quizDocs \cup {eventKey} |->
                               IF k = eventKey THEN doc ELSE quizDocs[k]]
             /\ reviews' = [reviews EXCEPT ![i].logPending = r.logPending \ {j}]
    /\ UNCHANGED <<loaded, facts, memories, db, changesQ, initPos, initMem, quiz, nLearn,
                   clock, arg, ret,
                 component>>

NextFail ==
  \/ Setup
  \/ InitGet
  \/ Deliver
  \/ Tick
  \/ LearnUnlearn
  \/ ClickReview
  \/ SubmitFallible
  \/ Scan
  \/ Upsert
  \/ Log
  \/ FailScan
  \/ FailUpsert
  \/ FailLog
  \/ OrphanUpsert
  \/ OrphanLog

SpecFail == Init /\ [][NextFail]_vars

\* C13: the store operation that fails writes nothing and is not started
\* again; from then on the review stays failed, and no step of a failed review
\* changes the state of the quiz: neither startQuizSession nor failQuiz is
\* dispatched for it.
FailedReviewDispatchesNothing ==
  [][\A i \in 1..Len(reviews) :
       /\ reviews[i].phase = "failed" => reviews'[i].phase = "failed"
       /\ reviews'[i].phase = "failed" /\ reviews'[i] # reviews[i] =>
            /\ quiz' = quiz
            /\ reviews'[i].pending \subseteq reviews[i].pending
            /\ reviews'[i].logPending \subseteq reviews[i].logPending
            /\ reviews[i].phase # "failed" =>
                 /\ db' = db
                 /\ quizDocs' = quizDocs
                 /\ changesQ' = changesQ]_vars

\* the upsert of one of two related keys failed after the other had been
\* written: the review is failed and its quiz is still presented
FailedReviewDispatchesNothingWitness ==
  \E i \in 1..Len(reviews) :
    /\ reviews[i].phase = "failed"
    /\ reviews[i].pending = {}
    /\ Len(reviews[i].relatedKeys) = 2
    /\ DOMAIN reviews[i].events # {}
    /\ quiz.state = "quizzing"
    /\ quiz.action.quizKey = reviews[i].quizKey

-----------------------------------------------------------------------------
\* The change listener alone: a sequence of notifications folded, one after the
\* other, into a page store that is empty or holds the snapshot of the load.

Notes == {Change(k, d) : k \in Keys, d \in {Missing, NewMemory(0), NewMemory(1)}}

NoteSeqs == UNION {[1..n -> Notes] : n \in 0..MaxNotes}

RECURSIVE foldChanges(_, _)
foldChanges(mem, changes) ==
  IF changes = <<>> THEN mem
  ELSE foldChanges(foldChange(mem, Head(changes)), Tail(changes))

InitFold ==
  /\ PureSys
  /\ arg \in {[mem |-> m, changes |-> c] :
                m \in {<<>>, [i \in 1..Len(allKeys) |-> <<allKeys[i], NewMemory(0)>>]},
                c \in NoteSeqs}
  /\ ret = Unset

CallFold ==
  /\ ret = Unset
  /\ ret' = [memories |-> foldChanges(arg.mem, arg.changes)]
  /\ UNCHANGED <<arg, sysvars>>

NextFold == CallFold

SpecFold == InitFold /\ [][NextFold]_vars

\* the indices of the notifications for key k
NotesOf(changes, k) == {i \in 1..Len(changes) : changes[i].id = k}

Latest(S) == CHOOSE i \in S : \A j \in S : j <= i

\* C14: after a sequence of notifications has been folded in, the entry of a
\* key is what its latest notification delivered: empty if that was a
\* deletion, the notification's document otherwise; the entry of a key with no
\* notification is as it was.
LastNotificationWins ==
  ret # Unset =>
    \A k \in Keys :
      IF NotesOf(arg.changes, k) = {}
        THEN Get(ret.memories, k) = Get(arg.mem, k)
        ELSE LET c == arg.changes[Latest(NotesOf(arg.changes, k))]
             IN  Get(ret.memories, k) = IF c.deleted THEN EmptyDoc ELSE c.doc

\* a key was learned, unlearned and learned again, then another key unlearned
LastNotificationWinsWitness ==
  /\ ret # Unset
  /\ Len(arg.changes) = 3
  /\ arg.changes[1].id = arg.changes[2].id
  /\ arg.changes[3].id # arg.changes[1].id
  /\ ~arg.changes[1].deleted
  /\ arg.changes[2].deleted
  /\ arg.changes[3].deleted
  /\ Get(ret.memories, arg.changes[1].id) = EmptyDoc
  /\ Get(arg.mem, arg.changes[3].id) = NewMemory(0)
  /\ Get(ret.memories, arg.changes[3].id) = EmptyDoc

-----------------------------------------------------------------------------
\* The initial load next to the change listener.  The listener is subscribed by
\* setup() while init() awaits its first db.get; a Sentence component shows its
\* learn and unlearn buttons after a load of its own keys only, so a click can
\* come while init() is still reading the other keys.

LearnDuringLoad ==
  /\ loaded
  /\ nLearn < MaxLearn
  /\ \E key \in Keys, learn \in BOOLEAN :
       LET doc == learnUnlearnDoc(upsertOld(db[key]), learn, clock)
       IN  /\ db' = [db EXCEPT ![key] = doc]
           /\ changesQ' = Append(changesQ, Change(key, doc))
  /\ nLearn' = nLearn + 1
  /\ UNCHANGED <<loaded, facts, memories, quizDocs, initPos, initMem, quiz, reviews,
                 clock, arg, ret,
                 component>>

NextLoad ==
  \/ Setup
  \/ InitGet
  \/ Deliver
  \/ LearnDuringLoad

SpecLoad == Init /\ [][NextLoad]_vars

\* C15: once the snapshot of the load has been dispatched and every
\* notification has been folded in, the entry of each key is what the latest
\* notification for it delivered, that is the document the store holds (empty
\* for a tombstone), and for a key never notified the document that was loaded.
NotificationWinsOverLoad ==
  initPos > Len(allKeys) /\ changesQ = <<>> =>
    \A k \in Keys : Get(memories, k) = upsertOld(db[k])

\* two reviews of one key overlap: both were started before either resolved,
\* and the upserts of both have resolved
Overlapping ==
  /\ Len(reviews) = 2
  /\ reviews[1].phase = "log"
  /\ reviews[2].phase = "log"
  /\ reviews[1].quizKey = reviews[2].quizKey
  /\ nLearn = 0

\* the model after review r1 and then review r2 of a key learned at time 0
BothApplied(r1, r2) ==
  updateRecall(updateRecall(defaultModel(halflife, ab), r1.result, r1.date),
               r2.result, r2.date - r1.date)

\* C16: when two reviews of one key overlap, the key's stored model is that of
\* both updates applied one after the other, in one order or the other: no
\* update is lost.
OverlappingReviewsSerialized ==
  Overlapping =>
    LET k == reviews[1].quizKey
    IN  /\ HasEbisu(db[k])
        /\ db[k].ebisu \in {BothApplied(reviews[1], reviews[2]),
                            BothApplied(reviews[2], reviews[1])}

\* a success and a failure for one key, half an hour after it was learned,
\* have both been stored
OverlappingReviewsSerializedWitness ==
  /\ Overlapping
  /\ reviews[1].result # reviews[2].result
  /\ reviews[1].date = 1

-----------------------------------------------------------------------------
\* addKeys alone, as setup() calls it for one details element: the keyed fact
\* and its subfacts are dispatched to the page store unless addKeys throws.

FuriganaElems ==
  {Str(<<"h">>), Str(<<"/">>), Str(<<" ">>), [ruby |-> <<"K">>, rt |-> <<"h">>]}

\* up to two elements of furigana
Furiganas == UNION {[1..n -> FuriganaElems] : n \in 0..2}

SubfactInputs ==
  {[factType |-> "particle", left |-> l, cloze |-> <<"g">>, right |-> r] :
     l \in {<<>>, <<"K">>}, r \in {<<>>, <<"h">>}}
  \cup {[factType |-> "conjugated", expected |-> e] :
          e \in {<<Str(<<"h">>)>>, <<[ruby |-> <<"K">>, rt |-> <<"h">>], Str(<<"g">>)>>}}
  \cup {[factType |-> "vocab", kanjiKana |-> kk] :
          kk \in {<< <<"v">> >>, << <<"h">> >>, << <<"K">>, <<"v">> >>, << <<"K", "v">> >>}}

\* up to two subfacts
SentenceInputs ==
  {[factType |-> "sentence", furigana |-> f, subfacts |-> sf] :
     f \in Furiganas, sf \in UNION {[1..n -> SubfactInputs] : n \in 0..2}}

InitKeys ==
  /\ PureSys
  /\ arg \in SentenceInputs
  /\ ret = Unset

\* lines 359-362 of setup()
CallAddKeys ==
  /\ ret = Unset
  /\ ret' = addKeys(arg)
  /\ facts' = IF ret' = Throws THEN facts
              ELSE reducerAddFacts(facts, <<ret'>> \o ret'.subfacts)
  /\ UNCHANGED <<loaded, memories, db, quizDocs, changesQ, initPos, initMem, quiz,
                 reviews, nLearn, clock, arg, component>>

NextKeys == CallAddKeys

SpecKeys == InitKeys /\ [][NextKeys]_vars

\* the same for addKeys of src/client.ts
CallAddKeysClient ==
  /\ ret = Unset
  /\ ret' = addKeysClient(arg)
  /\ facts' = IF ret' = Throws THEN facts
              ELSE reducerAddFacts(facts, <<ret'>> \o ret'.subfacts)
  /\ UNCHANGED <<loaded, memories, db, quizDocs, changesQ, initPos, initMem, quiz,
                 reviews, nLearn, clock, arg, component>>

NextKeysClient == CallAddKeysClient

SpecKeysClient == InitKeys /\ [][NextKeysClient]_vars

\* a text holds an ideographic character
Ideographic(t) == \E i \in 1..Len(t) : t[i] = "K"

\* the meaning key of a text, and its reading key if the text holds kanji
MeaningReading(t) ==
  IF Ideographic(t)
    THEN << <<"model", "/">> \o t \o <<"/", "meaning">>,
            <<"model", "/">> \o t \o <<"/", "reading">> >>
    ELSE << <<"model", "/">> \o t \o <<"/", "meaning">> >>

\* C17: the keys of a sentence of plain text t are model/t/meaning, followed
\* by model/t/reading exactly when t holds an ideographic character.
SentenceKeys ==
  ret # Unset /\ ret # Throws => ret.keys = MeaningReading(furiganaToRuby(arg.furigana))

\* a sentence with kanji has its two keys, and one without has one
SentenceKeysWitness ==
  /\ ret # Unset
  /\ ret # Throws
  /\ Len(arg.furigana) = 2
  /\ Ideographic(furiganaToRuby(arg.furigana))
  /\ Len(ret.keys) = 2

\* C18: under a sentence of plain text t a particle gets the one key
\* model/t/particle/<left>_<cloze>_<right>, and a conjugated the one key
\* model/t/conjugated/<plain text of expected>.
ParticleConjugatedKeys ==
  ret # Unset /\ ret # Throws =>
    LET t == furiganaToRuby(arg.furigana)
    IN  \A i \in 1..Len(arg.subfacts) :
          LET o == arg.subfacts[i]
          IN  /\ o.factType = "particle" =>
                   ret.subfacts[i].keys =
                     << <<"model", "/">> \o t \o <<"/", "particle", "/">>
                          \o o.left \o <<"_">> \o o.cloze \o <<"_">> \o o.right >>
              /\ o.factType = "conjugated" =>
                   ret.subfacts[i].keys =
                     << <<"model", "/">> \o t \o <<"/", "conjugated", "/">>
                          \o furiganaToRuby(o.expected) >>

\* a sentence with a particle that has a left and a right context, and a
\* conjugated phrase whose expected text has a ruby
ParticleConjugatedKeysWitness ==
  /\ ret # Unset
  /\ ret # Throws
  /\ Len(arg.subfacts) = 2
  /\ arg.subfacts[1].factType = "particle"
  /\ arg.subfacts[1].left # <<>>
  /\ arg.subfacts[1].right # <<>>
  /\ arg.subfacts[2].factType = "conjugated"
  /\ Len(arg.subfacts[2].expected) = 2
  /\ Len(ret.subfacts[1].keys) = 1
  /\ Len(ret.subfacts[2].keys) = 1

\* C19: a vocab gets the meaning key of its surface forms joined by ",", and
\* the reading key as well exactly when the joined forms hold an ideographic
\* character.
VocabKeys ==
  ret # Unset /\ ret # Throws =>
    \A i \in 1..Len(arg.subfacts) :
      arg.subfacts[i].factType = "vocab" =>
        ret.subfacts[i].keys = MeaningReading(JoinWith(arg.subfacts[i].kanjiKana, ","))

\* C20: when the plain text of the sentence holds the separator, addKeys
\* throws, no key is derived and nothing is added to the page store's facts.
SeparatorRejected ==
  ret # Unset /\ Includes(furiganaToRuby(arg.furigana), "/") =>
    /\ ret = Throws
    /\ facts = NoDocs

\* a sentence with subfacts whose text holds the separator was rejected
SeparatorRejectedWitness ==
  /\ ret = Throws
  /\ arg.subfacts # <<>>
  /\ facts = NoDocs

\* the keys of a keyed fact, as a set
KeySet(f) == {f.keys[i] : i \in 1..Len(f.keys)}

\* C21: two distinct facts of one details element (the sentence and its
\* subfacts) share no key, and every key of the page store's key -> fact
\* mapping maps to the fact it was derived from.
KeysUnique ==
  ret # Unset /\ ret # Throws =>
    LET fs == <<ret>> \o ret.subfacts
    IN  /\ \A i, j \in 1..Len(fs) : fs[i] # fs[j] => KeySet(fs[i]) \cap KeySet(fs[j]) = {}
        /\ \A i \in 1..Len(fs) : \A k \in KeySet(fs[i]) : facts[k] = fs[i]

-----------------------------------------------------------------------------
\* addKeys called twice on one sentence object, and once more on what it returned
\* (a keyed sentence is a sentence).

InitRederive ==
  /\ PureSys
  /\ arg \in SentenceInputs
  /\ ret = Unset

Derive ==
  /\ ret = Unset
  /\ ret' = [input |-> addKeysCall(arg).sentence, first |-> addKeysCall(arg).result]
  /\ UNCHANGED <<arg, sysvars>>

Rederive ==
  /\ ret # Unset
  /\ "second" \notin DOMAIN ret
  /\ ret' = [input |-> addKeysCall(ret.input).sentence,
             first |-> ret.first,
             second |-> addKeysCall(ret.input).result,
             again |-> IF ret.first = Throws THEN Throws ELSE addKeysCall(ret.first).result]
  /\ UNCHANGED <<arg, sysvars>>

NextRederive ==
  \/ Derive
  \/ Rederive

SpecRederive == InitRederive /\ [][NextRederive]_vars

-----------------------------------------------------------------------------
\* The picking state alone, over the facts of any one sentence with one of its
\* keys learned: setup() dispatches the keyed facts, and Quiz renders.

\* the sentences that addKeys accepts
KeyedSentences == {addKeys(s) : s \in {x \in SentenceInputs : addKeys(x) # Throws}}

\* the keys of a keyed sentence and of its subfacts
KeysOf(f) == KeySet(f) \cup UNION {KeySet(f.subfacts[i]) : i \in 1..Len(f.subfacts)}

InitParent ==
  /\ PureSys
  /\ arg \in UNION {{[fact |-> f, key |-> k] : k \in KeysOf(f)} : f \in KeyedSentences}
  /\ ret = Unset

CallPresent ==
  /\ ret = Unset
  /\ facts' = reducerAddFacts(facts, <<arg.fact>> \o arg.fact.subfacts)
  /\ ret' = Render(QuizPicking, << <<arg.key, NewMemory(0)>> >>, facts', 0)
  /\ UNCHANGED <<loaded, memories, db, quizDocs, changesQ, initPos, initMem, quiz,
                 reviews, nLearn, clock, arg, component>>

NextParent == CallPresent

SpecParent == InitParent /\ [][NextParent]_vars

\* the first two path segments of a key, followed by /meaning
TruncatedMeaning(key) ==
  Split(key)[1] \o <<"/">> \o Split(key)[2] \o <<"/", "meaning">>

\* C23: whenever the quiz of a particle or of a conjugated phrase is presented,
\* the page store holds a sentence under the key made of the first two path
\* segments of the presented key and /meaning, and the parent the state carries
\* is that sentence; none is presented without a parent.
ParentIsSentence ==
  ret # Unset /\ ret.state = "quizzing"
      /\ ret.action.fact.factType \in {"particle", "conjugated"} =>
    LET pk == TruncatedMeaning(ret.action.quizKey)
    IN  /\ ret.action.quizKey = arg.key
        /\ pk \in DOMAIN facts
        /\ facts[pk].factType = "sentence"
        /\ ret.action.parent = facts[pk]
        /\ ret.action.parent = arg.fact

\* the conjugated phrase of a sentence with two subfacts is presented with
\* the sentence
ParentIsSentenceWitness ==
  /\ ret # Unset
  /\ ret.state = "quizzing"
  /\ ret.action.fact.factType = "conjugated"
  /\ Len(arg.fact.subfacts) = 2
  /\ ret.action.parent = arg.fact

-----------------------------------------------------------------------------
\* The Submit buttons of FactQuiz alone: one click, for any fact with a typed
\* answer and any text in the form.

GradeChars == {"h", "H", "g", "K", " "}

\* the texts of up to three characters
GradeInputs == UNION {[1..n -> GradeChars] : n \in 0..3}

GradeFacts ==
  {[factType |-> "sentence", furigana |-> f, subfacts |-> <<>>] :
     f \in {<<[ruby |-> <<"K">>, rt |-> <<"h">>], Str(<<"h">>)>>,
            <<[ruby |-> <<"K">>, rt |-> <<"H">>]>>,
            <<Str(<<"h">>), Str(<<" ">>), [ruby |-> <<"K">>, rt |-> <<"g">>]>>}}
  \cup {[factType |-> "vocab", kanjiKana |-> kk] :
          kk \in {<< <<"K">>, <<"h", "h">> >>, << <<"K">>, <<"H">> >>,
                  << <<"K">>, <<"h">>, <<"g">> >>}}
  \cup {[factType |-> "conjugated", expected |-> e] :
          e \in {<<Str(<<"h">>)>>, <<Str(<<"H">>)>>,
                 <<[ruby |-> <<"K">>, rt |-> <<"h">>], Str(<<"g">>)>>}}
  \cup {[factType |-> "particle", left |-> <<>>, cloze |-> c, right |-> <<>>] :
          c \in {<<"g">>, <<"H">>}}

InitGrade ==
  /\ PureSys
  /\ arg \in {[fact |-> f, input |-> i] : f \in GradeFacts, i \in GradeInputs}
  /\ ret = Unset

CallSubmit ==
  /\ ret = Unset
  /\ ret' = submitHandler(arg.fact, arg.input)
  /\ UNCHANGED <<arg, sysvars>>

NextGrade == CallSubmit

SpecGrade == InitGrade /\ [][NextGrade]_vars

\* katakana folded to hiragana, whitespace ignored
Normalized(t) == SelectSeq([i \in 1..Len(t) |-> IF t[i] = "H" THEN "h" ELSE t[i]],
                           LAMBDA c : c # " ")

\* the readings a reading quiz accepts: the reading of the sentence, the forms
\* in kana of the vocab
AcceptedReadings(fact) ==
  IF fact.factType = "sentence" THEN {furiganaToRt(fact.furigana)}
  ELSE {fact.kanjiKana[i] : i \in {j \in 1..Len(fact.kanjiKana) : ~Ideographic(fact.kanjiKana[j])}}

\* C24: the answer to a reading quiz is graded a success exactly when the
\* normalized response is the normalized reading of the sentence, or one of the
\* normalized readings of the vocab.
ReadingGraded ==
  ret # Unset /\ arg.fact.factType \in {"sentence", "vocab"} =>
    (ret.result <=>
       \E r \in AcceptedReadings(arg.fact) : Normalized(arg.input) = Normalized(r))

\* the text a conjugated or particle quiz expects
ExpectedText(fact) ==
  IF fact.factType = "conjugated" THEN furiganaToRuby(fact.expected) ELSE fact.cloze

\* C25: the answer to a conjugated or particle quiz is graded a success exactly
\* when the response is the expected text (the cloze, for a particle); a
\* response equal to that text is a success whatever characters it holds.
ExactMatchGraded ==
  ret # Unset /\ arg.fact.factType \in {"conjugated", "particle"} =>
    (ret.result <=> arg.input = ExpectedText(arg.fact))

-----------------------------------------------------------------------------
\* The unlearn and learn buttons of one key alone, with the store kept by
\* revision: a key with any history of reviews is unlearned and, later, learned.

InitRelearn ==
  /\ loaded = FALSE
  /\ facts = NoDocs
  /\ memories = <<>>
  /\ db \in {[k \in Keys |-> IF k = key THEN d ELSE Missing] :
               key \in Keys, d \in PickMemories \ {EmptyDoc}}
  /\ quizDocs = NoDocs
  /\ changesQ = <<>>
  /\ initPos = 0
  /\ initMem = <<>>
  /\ quiz = QuizInit
  /\ reviews = <<>>
  /\ nLearn = 0
  /\ clock = 0
  /\ component = Unset
  /\ arg = Unset
  /\ ret = Unset

\* learnUnlearn(key, false)
Unlearn ==
  /\ ret = Unset
  /\ \E key \in Keys :
       /\ ~IsMissing(db[key])
       /\ db' = [db EXCEPT ![key] = learnUnlearnRev(upsertOld(db[key]), FALSE, clock)]
       /\ ret' = [key |-> key, stage |-> "unlearned"]
  /\ UNCHANGED <<loaded, facts, memories, quizDocs, changesQ, initPos, initMem, quiz,
                 reviews, nLearn, clock, arg, component>>

\* learnUnlearn(key, true)
Relearn ==
  /\ ret # Unset
  /\ ret.stage = "unlearned"
  /\ db' = [db EXCEPT ![ret.key] = learnUnlearnRev(upsertOld(db[ret.key]), TRUE, clock)]
  /\ ret' = [key |-> ret.key, stage |-> "relearned", at |-> clock]
  /\ UNCHANGED <<loaded, facts, memories, quizDocs, changesQ, initPos, initMem, quiz,
                 reviews, nLearn, clock, arg, component>>

TickRelearn ==
  /\ clock < MaxElapsed
  /\ clock' = clock + 1
  /\ UNCHANGED <<loaded, facts, memories, db, quizDocs, changesQ, initPos, initMem,
                 quiz, reviews, nLearn, arg, ret,
                 component>>

NextRelearn ==
  \/ Unlearn
  \/ Relearn
  \/ TickRelearn

SpecRelearn == InitRelearn /\ [][NextRelearn]_vars

\* C26: a key that was unlearned and then learned holds the model of a first
\* learn at the time of the second: the default prior, lastSeen the time of
\* the learn, version "1", and no other field, whatever it held before.
RelearnIsFresh ==
  ret # Unset /\ ret.stage = "relearned" =>
    /\ db[ret.key] = [ebisu |-> <<ab, ab, halflife>>, lastSeen |-> toISOString(ret.at),
                       version |-> "1"]
    /\ db[ret.key] = learnUnlearnRev(upsertOld(Missing), TRUE, ret.at)

\* a key reviewed with success and last seen at time 1 was unlearned, and
\* learned again at time 2
RelearnIsFreshWitness ==
  /\ ret # Unset
  /\ ret.stage = "relearned"
  /\ ret.at = 2
  /\ db[ret.key] = NewMemory(2)

-----------------------------------------------------------------------------
\* The two computations of elapsed time alone: the scheduler's callback and the
\* merge function of a review of the active key, for a model last seen at any
\* time and a clock (Date.now(), new Date()) at any time.  The clock is the
\* client's: it can be set back between two sessions, and the documents stay.

InitElapsed ==
  /\ PureSys
  /\ arg \in {[key |-> k, mem |-> m, now |-> t, result |-> b] :
                k \in Keys, m \in PickMemories \ {EmptyDoc}, t \in 0..MaxElapsed,
                b \in BOOLEAN}
  /\ ret = Unset

CallElapsed ==
  /\ ret = Unset
  /\ ret' = [predicted |-> pickMapped(<<arg.key, arg.mem>>, arg.now),
             event |-> reviewEvent(arg.key, arg.key, arg.mem,
                                   [date |-> arg.now, result |-> arg.result,
                                    response |-> Undefined])]
  /\ UNCHANGED <<arg, sysvars>>

NextElapsed == CallElapsed

SpecElapsed == InitElapsed /\ [][NextElapsed]_vars

\* the time from lastSeen to now, zero when lastSeen is the later
ClampedElapsed(now, lastSeen) ==
  IF now - DateValue(lastSeen) < 0 THEN 0 ELSE now - DateValue(lastSeen)

\* C27: the scheduler predicts the recall, and a review updates the model, for
\* an elapsed time that is never negative: the time from lastSeen to now, and
\* zero when the stored lastSeen is later than now.
ElapsedClamped ==
  ret # Unset =>
    /\ ret.predicted = predictRecall(arg.mem.ebisu, ClampedElapsed(arg.now, arg.mem.lastSeen))
    /\ ret.event.newEbisu
         = updateRecall(arg.mem.ebisu, arg.result, ClampedElapsed(arg.now, arg.mem.lastSeen))

-----------------------------------------------------------------------------
\* The range scan of reviewSentence alone, over a store that holds the keys of
\* two sentences (one of them with up to one subfact), one key of which may
\* have been unlearned, and for any of the keys as the active one.

ScanSentences == {f \in KeyedSentences : Len(f.subfacts) <= 1}

BareSentences == {f \in KeyedSentences : Len(f.subfacts) = 0}

InitScan ==
  /\ PureSys
  /\ arg \in UNION {UNION {{[a |-> a, b |-> b, active |-> k, gone |-> g] :
                              k \in KeysOf(a) \cup KeysOf(b),
                              g \in KeysOf(a) \cup KeysOf(b) \cup {<<>>}} :
                             b \in BareSentences} : a \in ScanSentences}
  /\ ret = Unset

CallScan ==
  /\ ret = Unset
  /\ db' = [k \in KeysOf(arg.a) \cup KeysOf(arg.b) |->
              IF k = arg.gone THEN Missing ELSE NewMemory(0)]
  /\ ret' = [rows |-> allDocs(db', superkeyOf(arg.active))]
  /\ UNCHANGED <<loaded, facts, memories, quizDocs, changesQ, initPos, initMem, quiz,
                 reviews, nLearn, clock, arg, component>>

NextScan == CallScan

SpecScan == InitScan /\ [][NextScan]_vars

\* two keys have the same two leading path segments
SameRoot(k1, k2) ==
  /\ Len(Split(k1)) >= 2
  /\ Len(Split(k2)) >= 2
  /\ Split(k1)[1] = Split(k2)[1]
  /\ Split(k1)[2] = Split(k2)[2]

\* C28: the related keys of a review are the keys of the live documents with
\* the two leading path segments of the active key, each once: every such key,
\* and no key of another root.
ScanIsRoot ==
  ret # Unset =>
    /\ {ret.rows[i] : i \in 1..Len(ret.rows)}
         = {k \in DOMAIN db : ~IsMissing(db[k]) /\ SameRoot(k, arg.active)}
    /\ \A i, j \in 1..Len(ret.rows) : ret.rows[i] = ret.rows[j] => i = j

\* the review of a vocab's reading, in a store that also holds the keys of a
\* sentence whose text is a prefix of the vocab's: the scan returns the vocab's
\* two keys and nothing of the sentences
ScanIsRootWitness ==
  /\ ret # Unset
  /\ Len(arg.a.subfacts) = 1
  /\ arg.a.subfacts[1].factType = "vocab"
  /\ arg.a.subfacts[1].kanjiKana = << <<"K">>, <<"v">> >>
  /\ arg.active = arg.a.subfacts[1].keys[2]
  /\ arg.gone = <<>>
  /\ furiganaToRuby(arg.b.furigana) = <<"K">>
  /\ ret.rows = arg.a.subfacts[1].keys

-----------------------------------------------------------------------------
\* The event documents of the composed system.

\* the reviews that have drawn their random suffix and write their events
Logging == {i \in 1..Len(reviews) : reviews[i].phase = "log"}

\* C29: the event keys of one review are pairwise distinct, one per related
\* key; the event keys of two reviews are distinct; and every event write
\* creates a document under a key that held none.
EventKeysUnique ==
  /\ [](\A i1, i2 \in Logging :
          \A j1 \in 1..Len(reviews[i1].relatedKeys), j2 \in 1..Len(reviews[i2].relatedKeys) :
            eventKeyOf(reviews[i1], j1) = eventKeyOf(reviews[i2], j2) => i1 = i2 /\ j1 = j2)
  /\ [][quizDocs' # quizDocs =>
          \E k \in DOMAIN quizDocs' \ DOMAIN quizDocs :
            /\ DOMAIN quizDocs' = DOMAIN quizDocs \cup {k}
            /\ \A k2 \in DOMAIN quizDocs : quizDocs'[k2] = quizDocs[k2]]_vars

\* two reviews with one date have each written the events of two related keys
EventKeysUniqueWitness ==
  /\ Len(reviews) = 2
  /\ reviews[1] = ReviewDone
  /\ reviews[2] = ReviewDone
  /\ Cardinality(DOMAIN quizDocs) = 4
  /\ \A k \in DOMAIN quizDocs : k[2] = 0

\* C30: a document under quiz/ is written by a review's event write and by
\* nothing else (no learn, no unlearn, no upsert of a model changes one), and
\* a document once written stays as it is: no later step changes or deletes it.
EventsImmutable ==
  [][/\ \A k \in DOMAIN quizDocs :
          k \in DOMAIN quizDocs' /\ quizDocs'[k] = quizDocs[k]
     /\ quizDocs' # quizDocs =>
          /\ \E i \in Logging : reviews'[i] # reviews[i]
          /\ db' = db
          /\ nLearn' = nLearn]_vars

\* the events of a review at time 0 are in the store after a learn or unlearn
\* and after a second review, at time 1, has written its own
EventsImmutableWitness ==
  /\ Len(reviews) = 2
  /\ reviews[1] = ReviewDone
  /\ reviews[2] = ReviewDone
  /\ nLearn = 1
  /\ \E k \in DOMAIN quizDocs : k[2] = 0
  /\ \E k \in DOMAIN quizDocs : k[2] = 1

-----------------------------------------------------------------------------
\* The scheduler's choice among equal recalls.

\* the entries of least recall among those that hold a model
Least(mem, now) ==
  {i \in Present(mem) :
     \A j \in Present(mem) : ~LessThan(Recall(mem, j, now), Recall(mem, i, now))}

\* the first of them in the order of Object.entries
FirstLeast(mem, now) ==
  CHOOSE i \in Least(mem, now) : \A j \in Least(mem, now) : i <= j

\* C31: the quiz started by the picking state is a function of the entries of
\* the page store, in their order, and of the current time: it is the quiz of
\* the first entry, in that order, among those of least predicted recall.
FirstOfTiesPicked ==
  (ret # Unset /\ Present(arg.mem) # {}) =>
    /\ ret.state = "quizzing"
    /\ ret.action.quizKey = arg.mem[FirstLeast(arg.mem, arg.now)][1]

\* the second and third entries hold different models of the same least recall:
\* the second entry is picked
FirstOfTiesPickedWitness ==
  /\ ret # Unset
  /\ Len(arg.mem) = 3
  /\ Least(arg.mem, arg.now) = {2, 3}
  /\ arg.mem[2][2] # arg.mem[3][2]
  /\ ret.state = "quizzing"
  /\ ret.action.quizKey = arg.mem[2][1]

-----------------------------------------------------------------------------
\* The session in the running system: which transitions its components trigger.

\* a step of the system that returns the session to init; only doneQuizSession,
\* in quizzing or in feedbacking, has init as its next state
EndSession == Next /\ quiz.state # "init" /\ quiz'.state = "init"

\* C32: every pair of the transition table is triggered in the running system;
\* in particular a session that presents a quiz or its feedback can be ended:
\* a step to init is possible there.
EndSessionReachable ==
  quiz.state \in {"quizzing", "feedbacking"} => ENABLED EndSession

-----------------------------------------------------------------------------
\* The page store when a review completes.

\* the i-th review completes in this step, having updated the model of its key
Completes(i) ==
  /\ reviews[i] # ReviewDone
  /\ reviews[i].phase = "log"
  /\ reviews'[i] = ReviewDone
  /\ reviews[i].quizKey \in DOMAIN reviews[i].events

\* the store still holds, for the key of the i-th review, what that review wrote
StoreHoldsReview(i) ==
  LET r == reviews[i]
      doc == db[r.quizKey]
  IN  /\ HasEbisu(doc)
      /\ doc.ebisu = r.events[r.quizKey].newEbisu
      /\ doc.lastSeen = toISOString(r.date)

\* C33: when a review that passed completes and the session picks again, the
\* page store's model of the reviewed key is the one the review wrote (its new
\* lastSeen and parameters), unless a later write has replaced it in the store.
PicksFromReviewedModel ==
  [][\A i \in 1..Len(reviews) :
       (Completes(i) /\ reviews[i].result /\ quiz.state = "quizzing" /\ StoreHoldsReview(i)) =>
         LET m == Get(memories', reviews[i].quizKey)
         IN  /\ HasEbisu(m)
             /\ m.ebisu = reviews[i].events[reviews[i].quizKey].newEbisu
             /\ m.lastSeen = toISOString(reviews[i].date)]_vars

-----------------------------------------------------------------------------
\* The reducer of the page store alone: one call on any page state and action.

\* what addFacts carries: facts of the page, in any order
FactLists == UNION {[1..n -> {PageFacts[i] : i \in 1..Len(PageFacts)}] : n \in 0..MaxDispatched}

\* what updatingMemories carries, and what the page state holds: entries of
\* distinct keys, each an empty object or a model
MemoryEntries ==
  UNION {{m \in [1..n -> Keys \X {EmptyDoc, NewMemory(0)}] :
            \A i, j \in 1..n : m[i][1] = m[j][1] => i = j} : n \in 0..MaxDispatched}

PageStates ==
  {[facts |-> reducerAddFacts(EmptyDoc, fs), memories |-> m] :
     fs \in FactLists, m \in MemoryEntries}

PageActions ==
  {[type |-> "addFacts", facts |-> fs] : fs \in FactLists}
    \cup {[type |-> "updatingMemories", memories |-> m] : m \in MemoryEntries}
    \cup {[type |-> "@@redux/INIT"]}

InitPage ==
  /\ PureSys
  /\ arg \in {[state |-> st, action |-> a] : st \in PageStates, a \in PageActions}
  /\ ret = Unset

CallPageReducer ==
  /\ ret = Unset
  /\ ret' = reducer(arg.state, arg.action)
  /\ UNCHANGED <<arg, sysvars>>

NextPage == CallPageReducer

SpecPage == InitPage /\ [][NextPage]_vars

\* C34: updatingMemories leaves the facts as they are and changes the memory
\* entries of the keys it names only; addFacts leaves the memories as they are
\* and removes no key from the facts.
ReducerFrames ==
  ret # Unset =>
    /\ arg.action.type = "updatingMemories" =>
          /\ ret.facts = arg.state.facts
          /\ \A k \in Keys \ EntryKeys(arg.action.memories) :
                Get(ret.memories, k) = Get(arg.state.memories, k)
    /\ arg.action.type = "addFacts" =>
          /\ ret.memories = arg.state.memories
          /\ DOMAIN arg.state.facts \subseteq DOMAIN ret.facts

\* updatingMemories on a page that holds facts and holds a model the action
\* does not name, while the action replaces another entry
ReducerFramesWitness ==
  /\ ret # Unset
  /\ arg.action.type = "updatingMemories"
  /\ arg.state.facts # EmptyDoc
  /\ \E k \in EntryKeys(arg.state.memories) \ EntryKeys(arg.action.memories) :
       HasEbisu(Get(ret.memories, k))
  /\ ret.memories # arg.state.memories
  /\ Len(ret.memories) = Len(arg.state.memories)

-----------------------------------------------------------------------------
\* The components of a sentence: Sentence, VocabComponent, ParticleComponent and
\* ConjugatedComponent.  Each holds a state `learned`, undefined until its
\* init() has read the store, and an effect without dependencies, which React
\* runs after every render: first the function the previous effect returned,
\* then the effect.  A render is synchronous with the setLearned that causes it;
\* its effect runs later, and at the latest before the next update is processed.

\* a sentence with a reading, a particle, a vocab with a reading and a
\* conjugated phrase: four components
ComponentSentence ==
  [factType |-> "sentence",
   furigana |-> << [ruby |-> <<"K">>, rt |-> <<"h">>] >>,
   subfacts |-> << [factType |-> "particle", left |-> <<>>, cloze |-> <<"g">>, right |-> <<>>],
                   [factType |-> "vocab", kanjiKana |-> << <<"K">>, <<"v">> >>],
                   [factType |-> "conjugated", expected |-> << [str |-> <<"h">>] >>,
                    hints |-> <<>>] >>]

ComponentFact == addKeys(ComponentSentence)

ComponentFacts ==
  {ComponentFact} \cup {ComponentFact.subfacts[i] : i \in 1..Len(ComponentFact.subfacts)}

ComponentKeys == UNION {{f.keys[i] : i \in 1..Len(f.keys)} : f \in ComponentFacts}

\* Sentence and VocabComponent keep a record of flags, one per key
KeepsRecord(fact) == fact.factType \in {"sentence", "vocab"}

\* props.fact.keys, or [props.fact.keys[0]]
dbKeys(fact) == IF KeepsRecord(fact) THEN fact.keys ELSE <<fact.keys[1]>>

\* a value of the state `learned`
Learned(v) == [value |-> v]
Defined(l) == "value" \in DOMAIN l

\* the component after its first render
Mounted(fact) ==
  [fact |-> fact, mounted |-> TRUE, learned |-> Undefined, effectPending |-> TRUE,
   subscriptions |-> <<>>, cleanup |-> "none", inits |-> <<>>]

\* an effect that returns nothing to cancel its subscription
effectCleanupNothing(fact, learned) == "none"

\* what the effect returns: a function that cancels the subscription it opened,
\* or, in ParticleComponent and ConjugatedComponent while learned is undefined,
\* nothing or a function that does nothing
effectCleanup(fact, learned) ==
  IF KeepsRecord(fact) \/ Defined(learned) THEN "cancel" ELSE "none"

\* the effect subscribes to the changes of its keys
effectSubscribes(fact, learned) == KeepsRecord(fact) \/ Defined(learned)

\* the effect starts init()
effectInits(fact, learned) == ~Defined(learned)

\* useEffect's callback of the last render runs, after the function the
\* previous effect returned; a subscription is the `learned` its listener sees
useEffect(c) ==
  LET cleaned == IF c.cleanup = "cancel"
                   THEN SubSeq(c.subscriptions, 1, Len(c.subscriptions) - 1)
                   ELSE c.subscriptions
  IN  [c EXCEPT
         !.effectPending = FALSE,
         !.subscriptions = IF effectSubscribes(c.fact, c.learned)
                             THEN Append(cleaned, c.learned) ELSE cleaned,
         !.cleanup = effectCleanup(c.fact, c.learned),
         !.inits = IF effectInits(c.fact, c.learned)
                     THEN Append(c.inits, [pos |-> 1, learned |-> <<>>]) ELSE c.inits]

flushPassiveEffects(c) == IF c.effectPending THEN useEffect(c) ELSE c

\* setLearned(v): nothing on an unmounted component or when v is the boolean
\* the state holds; a render otherwise
setLearned(c, v) ==
  IF ~c.mounted THEN c
  ELSE LET flushed == flushPassiveEffects(c)
       IN  IF v = flushed.learned /\ ~KeepsRecord(c.fact) THEN flushed
           ELSE [flushed EXCEPT !.learned = v, !.effectPending = TRUE]

\* the 'change' listener of a subscription that sees `learned`
changeListener(c, learned, change) ==
  IF ~Defined(learned) THEN c
  ELSE IF KeepsRecord(c.fact)
    THEN setLearned(c, Learned(Put(learned.value, change.id, ~change.deleted)))
  ELSE setLearned(c, Learned(~change.deleted))

\* a change is announced to the subscriptions that are live
RECURSIVE announce(_, _, _)
announce(c, subs, change) ==
  IF subs = <<>> THEN c
  ELSE announce(changeListener(c, Head(subs), change), Tail(subs), change)

\* the flag the component shows on the button of a key
shown(c, key) ==
  IF KeepsRecord(c.fact)
    THEN Lookup(c.learned.value, key) # 0 /\ Get(c.learned.value, key)
    ELSE c.learned.value

InitComponent ==
  /\ loaded = FALSE
  /\ facts = NoDocs
  /\ memories = <<>>
  /\ \E fact \in ComponentFacts :
       /\ component = Mounted(fact)
       /\ db \in {d \in [ComponentKeys -> {Missing, NewMemory(0)}] :
                    \A k \in ComponentKeys :
                      k \notin {fact.keys[i] : i \in 1..Len(fact.keys)} => d[k] = Missing}
  /\ quizDocs = NoDocs
  /\ changesQ = <<>>
  /\ initPos = 0
  /\ initMem = <<>>
  /\ quiz = QuizInit
  /\ reviews = <<>>
  /\ nLearn = 0
  /\ clock = 0
  /\ arg = Unset
  /\ ret = Unset

\* React runs the effect of the last render
EffectRuns ==
  /\ component.mounted
  /\ component.effectPending
  /\ component' = useEffect(component)
  /\ UNCHANGED <<loaded, facts, memories, db, quizDocs, changesQ, initPos, initMem, quiz,
                 reviews, nLearn, clock, arg, ret>>

\* one db.get of an init() resolves; after the last one init() calls setLearned
InitReads ==
  /\ \E i \in 1..Len(component.inits) :
       LET c == component
           keys == dbKeys(c.fact)
           key == keys[c.inits[i].pos]
           learned == Append(c.inits[i].learned, <<key, ~IsMissing(db[key])>>)
           rest == [c EXCEPT !.inits = SubSeq(c.inits, 1, i - 1)
                                         \o SubSeq(c.inits, i + 1, Len(c.inits))]
       IN  IF c.inits[i].pos < Len(keys)
             THEN component' = [c EXCEPT !.inits[i] = [pos |-> @.pos + 1, learned |-> learned]]
             ELSE component' =
                    setLearned(rest, IF KeepsRecord(c.fact) THEN Learned(learned)
                                     ELSE Learned(learned[1][2]))
  /\ UNCHANGED <<loaded, facts, memories, db, quizDocs, changesQ, initPos, initMem, quiz,
                 reviews, nLearn, clock, arg, ret>>

\* a change of one of the component's keys reaches its live subscriptions
Announce ==
  /\ changesQ # <<>>
  /\ component' = announce(component, component.subscriptions, Head(changesQ))
  /\ changesQ' = Tail(changesQ)
  /\ UNCHANGED <<loaded, facts, memories, db, quizDocs, initPos, initMem, quiz,
                 reviews, nLearn, clock, arg, ret>>

\* a click on the button of a key: learnUnlearn(key, !learned[key]); React runs
\* a pending effect before it handles the click
ClickLearn ==
  /\ component.mounted
  /\ Defined(component.learned)
  /\ nLearn < MaxClicks
  /\ component' = flushPassiveEffects(component)
  /\ \E i \in 1..Len(dbKeys(component.fact)) :
       LET key == dbKeys(component.fact)[i]
           doc == learnUnlearnDoc(upsertOld(db[key]), ~shown(component, key), clock)
       IN  /\ db' = [db EXCEPT ![key] = doc]
           /\ changesQ' = Append(changesQ, Change(key, doc))
  /\ nLearn' = nLearn + 1
  /\ UNCHANGED <<loaded, facts, memories, quizDocs, initPos, initMem, quiz, reviews,
                 clock, arg, ret>>

\* Sentence renders again and, with it, the component of each of its subfacts
ParentRenders ==
  /\ component.mounted
  /\ component.fact.factType # "sentence"
  /\ Len(component.inits) < MaxInits
  /\ component' = [flushPassiveEffects(component) EXCEPT !.effectPending = TRUE]
  /\ UNCHANGED <<loaded, facts, memories, db, quizDocs, changesQ, initPos, initMem, quiz,
                 reviews, nLearn, clock, arg, ret>>

\* the component's root is removed from the page: React runs the pending
\* effect and then the function the last effect returned
Unmount ==
  /\ component.mounted
  /\ LET c == flushPassiveEffects(component)
     IN  component' =
           [c EXCEPT !.mounted = FALSE,
                     !.subscriptions = IF c.cleanup = "cancel"
                                         THEN SubSeq(c.subscriptions, 1, Len(c.subscriptions) - 1)
                                         ELSE c.subscriptions,
                     !.cleanup = "none"]
  /\ UNCHANGED <<loaded, facts, memories, db, quizDocs, changesQ, initPos, initMem, quiz,
                 reviews, nLearn, clock, arg, ret>>

\* a review of one of the component's keys by the quiz of the page:
\* reviewSentence's range scan (its event documents are no keys of a component)
ReviewScans ==
  /\ reviews = <<>>
  /\ \E i \in 1..Len(dbKeys(component.fact)), result \in BOOLEAN :
       LET quizKey == dbKeys(component.fact)[i]
           related == allDocs(db, superkeyOf(quizKey))
       IN  /\ HasEbisu(db[quizKey])
           /\ reviews' = << [phase |-> "upsert", quizKey |-> quizKey, result |-> result,
                             response |-> Undefined, date |-> clock,
                             pending |-> {related[j] : j \in 1..Len(related)}] >>
  /\ UNCHANGED <<loaded, facts, memories, db, quizDocs, changesQ, initPos, initMem, quiz,
                 nLearn, clock, arg, ret, component>>

\* one db.upsert of the review resolves
ReviewUpserts ==
  /\ reviews # <<>>
  /\ reviews[1] # ReviewDone
  /\ \E key \in reviews[1].pending :
       LET r == reviews[1]
           doc == reviewUpsert(key, r.quizKey, upsertOld(db[key]), r)
       IN  /\ db' = [db EXCEPT ![key] = doc]
           /\ changesQ' = Append(changesQ, Change(key, doc))
           /\ reviews' = IF r.pending = {key} THEN <<ReviewDone>>
                         ELSE << [r EXCEPT !.pending = @ \ {key}] >>
  /\ UNCHANGED <<loaded, facts, memories, quizDocs, initPos, initMem, quiz, nLearn,
                 clock, arg, ret, component>>

NextComponent ==
  \/ EffectRuns
  \/ InitReads
  \/ Announce
  \/ ClickLearn
  \/ ParentRenders
  \/ Unmount
  \/ ReviewScans
  \/ ReviewUpserts

SpecComponent == InitComponent /\ [][NextComponent]_vars

\* C35: a mounted component holds at most one live subscription and an
\* unmounted component holds none: the function an effect returns cancels the
\* subscription that effect opened.
OneSubscription ==
  /\ Len(component.subscriptions) <= 1
  /\ ~component.mounted => component.subscriptions = <<>>

\* the component was unmounted after it had rendered its buttons, subscribed
\* with the flags they show and taken a click
OneSubscriptionWitness ==
  /\ ~component.mounted
  /\ Defined(component.learned)
  /\ nLearn > 0
  /\ changesQ = <<>>

\* nothing is in flight and the last render's effect has run
ComponentAtRest ==
  /\ component.mounted
  /\ Defined(component.learned)
  /\ ~component.effectPending
  /\ component.inits = <<>>
  /\ changesQ = <<>>
  /\ reviews \in {<<>>, <<ReviewDone>>}

\* C36: once nothing is in flight and every change has been announced and
\* rendered, the flag a component shows for each of its keys is true exactly when
\* the store holds a model for that key.
ShownIsLearned ==
  ComponentAtRest =>
    \A i \in 1..Len(dbKeys(component.fact)) :
      shown(component, dbKeys(component.fact)[i]) = HasEbisu(db[dbKeys(component.fact)[i]])

-----------------------------------------------------------------------------
\* The keys of the page store.

\* C37: every key of the page store's memories is a key of its facts; the
\* key the scheduler picks resolves to a fact, and the session rests in the
\* picking state only when there is nothing to pick.
ModelsHaveFacts ==
  /\ EntryKeys(memories) \subseteq DOMAIN facts
  /\ quiz.state = "picking" => pick(memories, clock) = 0

\* every key is loaded, two hold a model and the quiz of one is presented
ModelsHaveFactsWitness ==
  /\ EntryKeys(memories) = Keys
  /\ possible(memories) >= 2
  /\ quiz.state = "quizzing"
  /\ facts[quiz.action.quizKey] = quiz.action.fact

\* C38: every key of the page store's facts leads to a fact that lists that key;
\* in the quizzing and feedbacking states the key of the quiz is one of the keys
\* of the fact the state carries, and the quiz of a sentence or of a vocab is
\* on a key of that fact that ends in meaning or in reading.
FactsHoldTheirKeys ==
  /\ \A k \in DOMAIN facts : k \in KeySet(facts[k])
  /\ quiz.state \in {"quizzing", "feedbacking"} =>
       /\ quiz.action.quizKey \in KeySet(quiz.action.fact)
       /\ quiz.action.fact.factType \in {"sentence", "vocab"} =>
            \/ endsWith(quiz.action.quizKey, "meaning")
            \/ endsWith(quiz.action.quizKey, "reading")

\* the feedback of a missed quiz of the vocab
FactsHoldTheirKeysWitness ==
  /\ quiz.state = "feedbacking"
  /\ quiz.action.fact.factType = "vocab"
  /\ facts[quiz.action.quizKey] = quiz.action.fact

====
